---- MODULE Spec2Model ----
(***************************************************************************)
(* The lesson-session progression engine of the language-learning app:     *)
(* core/views.py (lesson_start, exercise_play, lesson_complete, shop,      *)
(* course_detail), core/models.py (UserProfile, UserDailyQuest,            *)
(* LessonProgress, UserAchievement) and core/utils/achievements.py         *)
(* (award_achievement), for one user.                                      *)
(*                                                                         *)
(* Spec      : the requests of one user, one request per step (each view   *)
(*             runs to its response before the next request starts). A     *)
(*             view is an operator from the stored state and the request   *)
(*             to the stored state it leaves and the response it gives.    *)
(* SpecGrant : two concurrent calls of award_achievement for the same      *)
(*             user and achievement, interleaved at every database access. *)
(* SpecComplete : two concurrent lesson_complete requests of the same      *)
(*             user for the same lesson, interleaved at every database     *)
(*             access.                                                     *)
(* SpecQuests : two concurrent course_detail page views of the same user,  *)
(*             interleaved at every database access.                       *)
(* SpecJudge : the Answer Judge alone, over exercises of every kind.       *)
(* SpecStreak : the correct answers of one user over several days.         *)
(* SpecEvaluate : the calls of check_and_award_achievements for one user,  *)
(*             one call per step.                                          *)
(* SpecLessons : the requests of one user over the two lessons of the      *)
(*             course, one request per step.                               *)
(* SpecHelper : the calls of generate_smart_hint and explain_mistake over  *)
(*             a cache, one call per step.                                 *)
(***************************************************************************)
EXTENDS Integers, Sequences, FiniteSets, TLC

VARIABLES
    today,      \* date.today(), counted in days from 1
    profile,    \* the UserProfile row of the user
    session,    \* the stored request.session['lesson_attempts']
    progress,   \* the LessonProgress rows of the user, by lesson
    attempts,   \* the Attempt rows of the user, oldest first
    daily_quests, \* the quest types with an active DailyQuest template
    quests,     \* the UserDailyQuest rows of the user, by quest type and date_assigned
    grants,     \* the UserAchievement rows of the user: their number for the one
                \* achievement of SpecGrant, their titles in SpecEvaluate
    procs       \* the concurrent calls: award_achievement (SpecGrant), lesson_complete (SpecComplete)

vars == <<today, profile, session, progress, attempts, daily_quests, quests, grants, procs>>

----------------------------------------------------------------------------
(* Bounds of the model *)

NumDays == 2            \* the days the clock runs through
MaxHearts == 2          \* UserProfile.max_hearts of the modelled user
MaxAttempts == 3        \* the answer submissions of one behaviour

----------------------------------------------------------------------------
(* Program constants *)

perfect == 10           \* the session value 'perfect'
corrected == 11         \* the session value 'corrected'
failed == 12            \* the session value 'failed'
FirstTryXp == 10
RetryXp == 5
CompletionXp == 20
RefillCost == 350
FreezeCost == 200
StreakMasterDays == 7
NoDate == 0             \* a DateField holding None

----------------------------------------------------------------------------
(* Content Store: a lesson with a Translate and a Multiple Choice exercise  *)
(* (the first lesson of populate_sample_data) and a second lesson with a   *)
(* Listen exercise                                                         *)

\* The lesson of the specifications of one lesson, and the lessons of the course
Lessons == {1}
CourseLessons == {1, 2}

\* list(lesson.exercises.all().order_by("order")): the exercise ids in order
exercises(lesson_id) == IF lesson_id = 1 THEN <<1, 2>> ELSE <<3>>

ExerciseIds(lesson_id) == {exercises(lesson_id)[i] : i \in 1..Len(exercises(lesson_id))}

\* str(exercise.id) of every exercise of the course: the keys a session dict
\* of a lesson can be given
ExerciseKeys == UNION {ExerciseIds(l) : l \in CourseLessons}

\* Exercise.type: beside the two exercises of the lesson, a Listen exercise (3),
\* and a Listen (4) and a Translate (5) exercise whose answer_text is blank
type(e) == CASE e = 1 -> "TR" [] e = 2 -> "MC" [] e = 5 -> "TR" [] OTHER -> "LS"

\* Exercise.answer_text (blank=True)
answer_text(e) ==
    CASE e = 1 -> "hello" [] e = 2 -> "thank you" [] e \in {4, 5} -> "" [] OTHER -> " Hola"

\* ExerciseChoice rows: ids 1 and 2 belong to exercise 2, id 3 to another exercise
ChoiceIds == {1, 2, 3}
choice_exercise(c) == IF c = 3 THEN 1 ELSE 2
choice_is_correct(c) == c \in {2, 3}

\* str.strip() and str.lower() on the texts of the model
strip(t) ==
    CASE t = " Hola" -> "Hola" [] t = "hola " -> "hola"
      [] t = " Look at the ending. " -> "Look at the ending." [] OTHER -> t
lower(t) ==
    CASE t = "Hola" -> "hola" [] t = " Hola" -> " hola" [] t = "HELLO" -> "hello"
      [] t = "ADIOS" -> "adios" [] t = "Which one is 'gracias'?" -> "which one is 'gracias'?"
      [] OTHER -> t

\* What a POST carries: the "choice" and "answer" fields, and how the translation
\* checker answers it: the verdict of the text service ("yes", "no"), a JSON
\* answer whose "correct" is a non-empty string instead of a boolean ("nonbool"),
\* the checker's own fallback on a failure or an unreadable answer of the text
\* service ("fail"), or an exception that reaches the view ("raise")
NoChoice == 0
\* A "choice" field that is not a number (such as "abc"), and the id of no choice
Malformed == -1
Unknown == 7
Posts ==
    {[choice |-> 2, answer |-> "", ai |-> "fail"],
     [choice |-> 3, answer |-> "", ai |-> "fail"],
     [choice |-> Unknown, answer |-> "", ai |-> "fail"],
     [choice |-> Malformed, answer |-> "", ai |-> "fail"],
     [choice |-> NoChoice, answer |-> "HELLO", ai |-> "fail"],
     [choice |-> NoChoice, answer |-> "hola ", ai |-> "raise"],
     [choice |-> NoChoice, answer |-> "adios", ai |-> "no"],
     [choice |-> NoChoice, answer |-> "adios", ai |-> "nonbool"]}

----------------------------------------------------------------------------
(* UserProfile methods (core/models.py); each returns the saved row *)

lose_heart_keeps(p) == p

lose_heart(p) == IF p.hearts > 0 THEN [p EXCEPT !.hearts = @ - 1] ELSE p

\* last_heart_restore is written by restore_hearts and read nowhere: it is not
\* part of the modelled row
restore_hearts_adds(p) == [p EXCEPT !.hearts = @ + p.max_hearts]

restore_hearts(p) == [p EXCEPT !.hearts = p.max_hearts]

add_xp(p, amount) == [p EXCEPT !.xp = @ + amount]

add_gems(p, amount) == [p EXCEPT !.gems = @ + amount]

update_streak_counts(p, day) ==
    IF p.last_active_date = NoDate
    THEN [p EXCEPT !.streak_days = 1, !.last_active_date = day]
    ELSE [p EXCEPT !.streak_days = @ + 1, !.last_active_date = day]

update_streak(p, day) ==
    IF p.last_active_date = NoDate
    THEN [p EXCEPT !.streak_days = 1, !.last_active_date = day]
    ELSE IF p.last_active_date = day
    THEN p
    ELSE IF p.last_active_date = day - 1
    THEN [p EXCEPT !.streak_days = @ + 1, !.last_active_date = day]
    ELSE [p EXCEPT !.streak_days = 1, !.last_active_date = day]

\* views.restore_hearts_if_needed: midnight of last_active_date against
\* midnight of today
restore_hearts_if_needed(p, day) ==
    IF p.last_active_date # NoDate
    THEN IF p.last_active_date < day THEN restore_hearts(p) ELSE p
    ELSE restore_hearts(p)

----------------------------------------------------------------------------
(* UserDailyQuest (core/models.py) and the DailyQuest templates *)

QuestTypes == {"earn_xp", "complete_lessons", "perfect_lesson", "use_no_hearts"}

\* DailyQuest.target_value of the active template of each type
target_value(quest_type) ==
    CASE quest_type = "earn_xp" -> 30
      [] quest_type = "complete_lessons" -> 2
      [] OTHER -> 1

NoQuest == [exists |-> FALSE, progress |-> 0, completed |-> FALSE]

update_progress_unmarked(q, quest_type, increment) ==
    [q EXCEPT !.progress = @ + increment]

update_progress(q, quest_type, increment) ==
    [q EXCEPT !.progress = @ + increment,
              !.completed = IF q.progress + increment >= target_value(quest_type)
                            THEN TRUE ELSE @]

\* UserDailyQuest.objects.filter(quest__quest_type=..., date_assigned=today).first()
\* followed by "if quest: quest.update_progress(increment)"
update_quest(qs, quest_type, day, increment) ==
    IF qs[<<quest_type, day>>].exists
    THEN [qs EXCEPT ![<<quest_type, day>>] = update_progress(@, quest_type, increment)]
    ELSE qs

----------------------------------------------------------------------------
(* Session Tracker: request.session['lesson_attempts'][lesson][exercise].   *)
(* An exercise without a stored value reads as 0 (dict.get(key, 0)).        *)

\* isinstance(attempt_value, str)
IsStr(attempt_value) == attempt_value \in {perfect, corrected, failed}

\* views.exercise_play, lines 200-206
attempt_count_of(attempt_value) == IF IsStr(attempt_value) THEN 0 ELSE attempt_value

EmptyLesson(lesson_id) == [e \in ExerciseKeys |-> 0]

\* SessionMiddleware.process_response: the session is written back only when
\* request.session.modified was set, and never with a 500 response
save_session(stored, in_memory, modified) == IF modified THEN in_memory ELSE stored

----------------------------------------------------------------------------
(* Answer Judge: views.exercise_play, lines 212-245 *)

is_correct_of(exercise, post) ==
    LET submitted_text == strip(post.answer)
        exact == lower(submitted_text) = lower(strip(answer_text(exercise)))
    IN  IF type(exercise) = "MC"
        THEN /\ post.choice # NoChoice
             /\ post.choice \in ChoiceIds
             /\ choice_exercise(post.choice) = exercise
             /\ choice_is_correct(post.choice)
        ELSE IF type(exercise) = "TR"
        THEN CASE post.ai = "yes" -> TRUE
               [] post.ai = "no" -> FALSE
               [] post.ai = "nonbool" -> TRUE
               [] post.ai = "fail" ->
                    strip(lower(submitted_text)) = strip(lower(answer_text(exercise)))
               [] OTHER -> exact
        ELSE exact

\* ai_feedback of views.exercise_play, lines 234, 241 and 245: the "feedback" of
\* the checker's result, None ("none") after an exception and for other types
NoFeedback == "none"
ai_feedback_of(exercise, post) ==
    IF type(exercise) = "TR"
    THEN CASE post.ai = "fail" -> "Checked against expected answer."
           [] post.ai = "raise" -> NoFeedback
           [] OTHER -> "reason"
    ELSE NoFeedback

\* views.exercise_play, lines 220-222: ExerciseChoice.objects.filter(pk=choice_id,
\* ...) and int(choice_id) raise ValueError for a choice_id that is not a number;
\* the exception is not caught and the request ends with a 500 response
raises_value_error(exercise, post) == type(exercise) = "MC" /\ post.choice = Malformed

----------------------------------------------------------------------------
(* What a view reads and writes: the stored state of the user, and the      *)
(* response of the request (resp), which no later request reads             *)

Response(view, lesson_id, page) ==
    [view |-> view, lesson |-> lesson_id, exercise |-> 0, page |-> page,
     is_practice_mode |-> FALSE, judged |-> FALSE, is_correct |-> FALSE,
     attempt_count |-> 0, show_continue |-> FALSE, allow_retry |-> FALSE,
     evaluated |-> {}, ai_feedback |-> NoFeedback]

NoResponse == Response("none", 0, "none")

State ==
    [today |-> today, profile |-> profile, session |-> session, progress |-> progress,
     attempts |-> attempts, daily_quests |-> daily_quests, quests |-> quests,
     resp |-> NoResponse]

\* The stored state a request leaves
Stored(r) ==
    /\ profile' = r.profile
    /\ session' = r.session
    /\ progress' = r.progress
    /\ attempts' = r.attempts
    /\ quests' = r.quests

\* The UserProfile row of a new user (the field defaults, max_hearts MaxHearts)
\* holding gems g
NewProfile(g) ==
    [hearts |-> MaxHearts, max_hearts |-> MaxHearts, gems |-> g,
     xp |-> 0, streak_days |-> 0, last_active_date |-> NoDate]

\* No award_achievement call is running
NoProc == [pc |-> "idle", achievement |-> "none", loaded |-> FALSE, profile |-> NewProfile(0)]

----------------------------------------------------------------------------
(* Initial state: a new user, either holding the gems of one heart refill   *)
(* where no quest template is active, or holding no gems where the          *)
(* templates are active                                                     *)

Init ==
    /\ today = 1
    /\ \E g \in {0, RefillCost} :
          /\ profile = NewProfile(g)
          /\ daily_quests = IF g = 0 THEN QuestTypes ELSE {}
    /\ session = [l \in Lessons |-> EmptyLesson(l)]
    /\ progress = [l \in Lessons |->
                      [exists |-> FALSE, completed |-> FALSE, score |-> 0, last_seen |-> NoDate]]
    /\ attempts = <<>>
    /\ quests = [k \in QuestTypes \X (1..NumDays) |-> NoQuest]
    /\ grants = 0
    /\ procs = [i \in {1, 2} |-> NoProc]

----------------------------------------------------------------------------
(* Views (core/views.py) *)

\* home, course_list, user_profile, leaderboards: restore_hearts_if_needed and a page
page_view(st) == [st EXCEPT !.profile = restore_hearts_if_needed(@, st.today)]

\* views.course_detail: restore hearts, create today's quest instances when the
\* user has none for today
course_detail(st) ==
    [st EXCEPT
        !.profile = restore_hearts_if_needed(@, st.today),
        !.quests = IF \E t \in QuestTypes : st.quests[<<t, st.today>>].exists
                   THEN @
                   ELSE [k \in DOMAIN st.quests |->
                            IF k[2] = st.today /\ k[1] \in st.daily_quests
                            THEN [NoQuest EXCEPT !.exists = TRUE] ELSE st.quests[k]]]

clear_all(lesson_attempts, lesson_id) ==
    [l \in DOMAIN lesson_attempts |-> EmptyLesson(l)]

\* del request.session['lesson_attempts'][lesson_key]
clear_lesson(lesson_attempts, lesson_id) ==
    [lesson_attempts EXCEPT ![lesson_id] = EmptyLesson(lesson_id)]

\* views.lesson_start: the deletion of the lesson's key is made in the nested
\* dict of the loaded session without setting request.session.modified, so the
\* stored session is not written back
lesson_start(st, lesson_id) ==
    LET in_memory == clear_lesson(st.session, lesson_id)
    IN  [st EXCEPT
            !.profile = restore_hearts_if_needed(@, st.today),
            !.session = save_session(@, in_memory, FALSE),
            !.resp = Response("lesson_start", lesson_id,
                              IF exercises(lesson_id) = <<>> THEN "lesson_empty.html"
                              ELSE "redirect:exercise_play")]

\* LessonProgress.objects.filter(user=..., lesson=lesson, completed=True).first() is not None
practice_mode(st, lesson_id) == st.progress[lesson_id].exists /\ st.progress[lesson_id].completed

\* views.exercise_play, lines 261-367: what a judged submission does to the
\* profile, the stored status, the quests and the response
xp_for_flat(attempt_count) == FirstTryXp

xp_for(attempt_count) == IF attempt_count = 1 THEN FirstTryXp ELSE RetryXp

status_after_retry(attempt_count, is_correct) ==
    IF is_correct
    THEN IF attempt_count = 1 THEN perfect ELSE corrected
    ELSE 1

status_after_counts(attempt_count, is_correct) ==
    IF is_correct
    THEN IF attempt_count = 1 THEN perfect ELSE corrected
    ELSE attempt_count

status_after(attempt_count, is_correct) ==
    IF is_correct
    THEN IF attempt_count = 1 THEN perfect ELSE corrected
    ELSE IF attempt_count = 1 THEN attempt_count ELSE failed

profile_after_unfrozen(p, attempt_count, is_correct, is_practice_mode, day) ==
    IF is_correct
    THEN update_streak(add_xp(p, xp_for(attempt_count)), day)
    ELSE lose_heart(p)

profile_after(p, attempt_count, is_correct, is_practice_mode, day) ==
    IF is_correct
    THEN update_streak(IF is_practice_mode THEN p ELSE add_xp(p, xp_for(attempt_count)), day)
    ELSE IF is_practice_mode THEN p ELSE lose_heart(p)

quests_after_practice(qs, attempt_count, is_correct, is_practice_mode, day) ==
    IF is_correct
    THEN update_quest(qs, "earn_xp", day, xp_for(attempt_count))
    ELSE qs

quests_after(qs, attempt_count, is_correct, is_practice_mode, day) ==
    IF is_correct /\ ~is_practice_mode
    THEN update_quest(qs, "earn_xp", day, xp_for(attempt_count))
    ELSE qs

\* The Attempt row of views.exercise_play, lines 247-254 (created_at orders the
\* rows as they are appended)
Attempt_correct(exercise, is_correct) == [exercise |-> exercise, is_correct |-> TRUE]

Attempt_flipped(exercise, is_correct) == [exercise |-> exercise, is_correct |-> ~is_correct]

Attempt(exercise, is_correct) == [exercise |-> exercise, is_correct |-> is_correct]

no_hearts_ungated(p, is_practice_mode) == FALSE

\* The heart gate of views.exercise_play, line 176
no_hearts(p, is_practice_mode) == ~is_practice_mode /\ p.hearts <= 0

viewed_reset(lesson_attempts, lesson_id, exercise) ==
    [lesson_attempts EXCEPT ![lesson_id][exercise] = attempt_count_of(@)]

\* lines 188-206: the dicts of the session are made where missing and the
\* status is read; the reset of a terminal status to 0 is in a local variable
viewed(lesson_attempts, lesson_id, exercise) == lesson_attempts

exercise_by_id(exs, index) == IF index < 1 THEN 1 ELSE index

\* lines 181-186: the index clamped from below, and the exercise at that
\* place of the lesson's list
exercise_at(exs, index) == exs[IF index < 1 THEN 1 ELSE index]

\* views.exercise_play
exercise_play(st, lesson_id, index, method, post) ==
    LET exs == exercises(lesson_id)
        p0 == restore_hearts_if_needed(st.profile, st.today)
        is_practice_mode == practice_mode(st, lesson_id)
        r0 == Response("exercise_play", lesson_id, "none")
    IN
    IF no_hearts(p0, is_practice_mode)
    THEN [st EXCEPT !.profile = p0, !.resp = [r0 EXCEPT !.page = "no_hearts.html"]]
    ELSE IF exs = <<>> \/ index > Len(exs)
    THEN [st EXCEPT !.profile = p0,
                    !.resp = [r0 EXCEPT !.page = "redirect:lesson_complete",
                                        !.is_practice_mode = is_practice_mode]]
    ELSE
    LET exercise == exercise_at(exs, index)
        attempt_value == st.session[lesson_id][exercise]
        attempt_count0 == attempt_count_of(attempt_value)
    IN
    IF method = "GET"
    THEN [st EXCEPT !.profile = p0,
                    !.session = viewed(@, lesson_id, exercise),
                    !.resp = [r0 EXCEPT !.page = "exercise.html", !.exercise = exercise,
                                        !.is_practice_mode = is_practice_mode]]
    ELSE IF raises_value_error(exercise, post)
    THEN [st EXCEPT !.profile = p0, !.resp = [r0 EXCEPT !.page = "error500"]]
    ELSE
    LET is_correct == is_correct_of(exercise, post)
        attempt_count == attempt_count0 + 1
    IN  [st EXCEPT
            !.attempts = Append(@, Attempt(exercise, is_correct)),
            !.session = save_session(@,
                            [@ EXCEPT ![lesson_id][exercise] =
                                          status_after(attempt_count, is_correct)],
                            TRUE),
            !.profile = profile_after(p0, attempt_count, is_correct, is_practice_mode, st.today),
            !.quests = quests_after(@, attempt_count, is_correct, is_practice_mode, st.today),
            !.resp = [r0 EXCEPT !.page = "exercise.html", !.exercise = exercise,
                                !.is_practice_mode = is_practice_mode,
                                !.judged = TRUE,
                                !.is_correct = is_correct,
                                !.ai_feedback = IF is_correct
                                                THEN ai_feedback_of(exercise, post)
                                                ELSE NoFeedback,
                                !.attempt_count = attempt_count,
                                !.show_continue = (is_correct \/ attempt_count # 1),
                                !.allow_retry = (~is_correct /\ attempt_count = 1)]]

\* views.lesson_complete, lines 399-401: the tallies over attempts_data.values()
RECURSIVE count_status(_, _, _)
count_status(attempts_data, keys, status) ==
    IF keys = {} THEN 0
    ELSE LET k == CHOOSE x \in keys : TRUE
         IN  (IF attempts_data[k] = status THEN 1 ELSE 0)
             + count_status(attempts_data, keys \ {k}, status)

score_counts_failed(attempts_data) ==
    count_status(attempts_data, DOMAIN attempts_data, perfect)
    + count_status(attempts_data, DOMAIN attempts_data, corrected)
    + count_status(attempts_data, DOMAIN attempts_data, failed)

score_of(attempts_data) ==
    count_status(attempts_data, DOMAIN attempts_data, perfect)
    + count_status(attempts_data, DOMAIN attempts_data, corrected)

\* views.lesson_complete, lines 410-415
progress_left_open(lp, score, now) ==
    [lp EXCEPT !.exists = TRUE, !.score = score, !.last_seen = now]

completed_progress(lp, score, now) ==
    [lp EXCEPT !.exists = TRUE, !.score = score, !.completed = TRUE, !.last_seen = now]

\* views.lesson_complete, lines 483-487
practice_progress_rescored(lp, score, now) == [lp EXCEPT !.last_seen = now, !.score = score]

practice_progress(lp, score, now) == [lp EXCEPT !.last_seen = now]

\* views.lesson_complete, lines 457-482: DailyQuest has no WEEKLY_WARRIOR and no
\* STREAK_MASTER (core/models.py, lines 222-233), so reading either raises
\* AttributeError; the request ends with a 500 response, what was saved before
\* stays saved (autocommit), and the achievement evaluation (lines 479-482, inside
\* the streak branch) is not reached
raises_attribute_error(perfect_count, total_exercises, p) ==
    \/ perfect_count = total_exercises
    \/ p.streak_days >= StreakMasterDays

\* views.lesson_complete, lines 468-482: the achievement_type values that
\* check_and_award_achievements is called with; the four calls stand inside the
\* "if profile.streak_days >= 7" block, after the read of DailyQuest.STREAK_MASTER
evaluated(perfect_count, total_exercises, p) ==
    IF p.streak_days >= StreakMasterDays
       /\ ~raises_attribute_error(perfect_count, total_exercises, p)
    THEN {"lesson", "xp", "quest", "time"}
    ELSE {}

\* views.lesson_complete
lesson_complete(st, lesson_id) ==
    LET p0 == restore_hearts_if_needed(st.profile, st.today)
        is_practice_mode == practice_mode(st, lesson_id)
        attempts_data == st.session[lesson_id]
        perfect_count == count_status(attempts_data, DOMAIN attempts_data, perfect)
        total_exercises == Len(exercises(lesson_id))
        score == score_of(attempts_data)
        r0 == [Response("lesson_complete", lesson_id, "lesson_complete.html")
                  EXCEPT !.is_practice_mode = is_practice_mode]
        cleared == clear_lesson(st.session, lesson_id)
    IN
    IF is_practice_mode
    THEN [st EXCEPT
             !.profile = p0,
             !.progress = [@ EXCEPT ![lesson_id] = practice_progress(@, score, st.today)],
             !.session = save_session(@, cleared, TRUE),
             !.resp = r0]
    ELSE
    LET p1 == add_xp(p0, CompletionXp)
        q1 == update_quest(st.quests, "earn_xp", st.today, CompletionXp)
        q2 == update_quest(q1, "complete_lessons", st.today, 1)
        q3 == IF perfect_count = total_exercises
              THEN update_quest(q2, "perfect_lesson", st.today, 1)
              ELSE q2
        error == raises_attribute_error(perfect_count, total_exercises, p1)
    IN  [st EXCEPT
            !.profile = p1,
            !.progress = [@ EXCEPT ![lesson_id] = completed_progress(@, score, st.today)],
            !.quests = q3,
            !.session = save_session(@, cleared, ~error),
            !.resp = [r0 EXCEPT !.page = IF error THEN "error500" ELSE @,
                                !.evaluated = evaluated(perfect_count, total_exercises, p1)]]

shop_on_credit(st, method, item_type) ==
    LET p0 == restore_hearts_if_needed(st.profile, st.today)
        r0 == Response("shop", 0, "shop.html")
    IN  IF method = "POST" /\ item_type = "refill_hearts"
        THEN [st EXCEPT !.profile = restore_hearts([p0 EXCEPT !.gems = @ - RefillCost]),
                        !.resp = [r0 EXCEPT !.page = "redirect:shop"]]
        ELSE [st EXCEPT !.profile = p0, !.resp = r0]

\* views.shop
shop(st, method, item_type) ==
    LET p0 == restore_hearts_if_needed(st.profile, st.today)
        r0 == Response("shop", 0, "shop.html")
    IN  IF method = "POST" /\ item_type = "refill_hearts" /\ p0.gems >= RefillCost
        THEN [st EXCEPT !.profile = restore_hearts([p0 EXCEPT !.gems = @ - RefillCost]),
                        !.resp = [r0 EXCEPT !.page = "redirect:shop"]]
        ELSE IF method = "POST" /\ item_type = "streak_freeze" /\ p0.gems >= FreezeCost
        THEN [st EXCEPT !.profile = [p0 EXCEPT !.gems = @ - FreezeCost],
                        !.resp = [r0 EXCEPT !.page = "redirect:shop"]]
        ELSE [st EXCEPT !.profile = p0, !.resp = r0]

----------------------------------------------------------------------------
(* Requests: each step is one request, run to its response *)

\* The index of the URL: a non-negative integer, up to one past the last exercise
Indices(lesson_id) == 0..(Len(exercises(lesson_id)) + 1)

Methods == {"GET", "POST"}

ItemTypes == {"refill_hearts", "streak_freeze", "other"}

\* Midnight passes
NewDay ==
    /\ today < NumDays
    /\ today' = today + 1
    /\ UNCHANGED <<profile, session, progress, attempts, quests, daily_quests, grants, procs>>

PageView ==
    /\ Stored(page_view(State))
    /\ UNCHANGED <<today, daily_quests, grants, procs>>

CourseDetail ==
    /\ Stored(course_detail(State))
    /\ UNCHANGED <<today, daily_quests, grants, procs>>

LessonStart ==
    /\ \E l \in Lessons : Stored(lesson_start(State, l))
    /\ UNCHANGED <<today, daily_quests, grants, procs>>

ExerciseGet ==
    /\ \E l \in Lessons : \E index \in Indices(l) :
          Stored(exercise_play(State, l, index, "GET",
                               [choice |-> NoChoice, answer |-> "", ai |-> "fail"]))
    /\ UNCHANGED <<today, daily_quests, grants, procs>>

ExercisePost ==
    /\ Len(attempts) < MaxAttempts
    /\ \E l \in Lessons : \E index \in Indices(l), post \in Posts :
          Stored(exercise_play(State, l, index, "POST", post))
    /\ UNCHANGED <<today, daily_quests, grants, procs>>

LessonComplete ==
    /\ \E l \in Lessons : Stored(lesson_complete(State, l))
    /\ UNCHANGED <<today, daily_quests, grants, procs>>

Shop ==
    /\ \E method \in Methods, item_type \in ItemTypes : Stored(shop(State, method, item_type))
    /\ UNCHANGED <<today, daily_quests, grants, procs>>

Next ==
    \/ NewDay
    \/ PageView
    \/ CourseDetail
    \/ LessonStart
    \/ ExerciseGet
    \/ ExercisePost
    \/ LessonComplete
    \/ Shop

Spec == Init /\ [][Next]_vars

----------------------------------------------------------------------------
(* Achievement grants: utils/achievements.award_achievement, called by two   *)
(* requests of the same user for the same achievement. Each step is one     *)
(* database access of one call.                                             *)

\* Achievement rows of populate_achievements
Achievements == {"First Steps", "Scholar", "Warming Up"}

\* Achievement.xp_reward and gem_reward, as populate_achievements sets them
xp_reward(a) ==
    CASE a = "First Steps" -> 10 [] a = "Scholar" -> 25
      [] a = "Dedicated Learner" -> 50 [] a = "Lesson Master" -> 100
      [] a = "On Fire" -> 30 [] a = "Wildfire" -> 75
      [] a = "Unstoppable" -> 150 [] a = "Legendary Streak" -> 500
      [] a = "Rising Star" -> 20 [] a = "Experience Hunter" -> 50
      [] a = "XP Champion" -> 100 [] a = "XP Legend" -> 250
      [] a = "Quest Warrior" -> 50 [] a = "Quest Master" -> 125
      [] a = "Early Bird" -> 25 [] a = "Night Owl" -> 25
      [] a = "Gem Collector" -> 50 [] a = "Treasure Hunter" -> 150
      [] OTHER -> 15

gem_reward(a) ==
    CASE a = "First Steps" -> 5
      [] a = "Dedicated Learner" -> 20 [] a = "Lesson Master" -> 50
      [] a = "On Fire" -> 20 [] a = "Wildfire" -> 40
      [] a = "Unstoppable" -> 100 [] a = "Legendary Streak" -> 250
      [] a = "Experience Hunter" -> 25
      [] a = "XP Champion" -> 50 [] a = "XP Legend" -> 150
      [] a = "Quest Warrior" -> 30 [] a = "Quest Master" -> 75
      [] a = "Early Bird" -> 15 [] a = "Night Owl" -> 15
      [] a = "Gem Collector" -> 25 [] a = "Treasure Hunter" -> 75
      [] OTHER -> 10

\* The profile the two requests find: a user who has completed a lesson
GrantProfile ==
    [NewProfile(0) EXCEPT !.xp = CompletionXp + FirstTryXp, !.streak_days = 1,
                          !.last_active_date = 1]

not_enforced(rows) == TRUE

\* UserAchievement.Meta.unique_together: an insert is accepted when the user has
\* no row for the achievement
unique_together(rows) == rows = 0

Procs == {1, 2}

\* A call has ended: it returned the new grant, returned None, or raised
Ended(i) == procs[i].pc \in {"return", "return_none", "IntegrityError"}

InitGrant ==
    /\ today = 1
    /\ profile = GrantProfile
    /\ daily_quests = {}
    /\ session = [l \in Lessons |-> EmptyLesson(l)]
    /\ progress = [l \in Lessons |->
                      [exists |-> TRUE, completed |-> TRUE, score |-> 1, last_seen |-> 1]]
    /\ attempts = <<>>
    /\ quests = [k \in QuestTypes \X (1..NumDays) |-> NoQuest]
    /\ grants = 0
    \* user.profile is already loaded on the request's user object when the caller
    \* read it before (check_and_award_achievements, line 20), and is loaded by
    \* award_achievement itself otherwise
    /\ \E a \in Achievements : \E c \in [Procs -> BOOLEAN] :
          procs = [i \in Procs |->
                      [pc |-> "filter", achievement |-> a, loaded |-> c[i],
                       profile |-> GrantProfile]]

\* lines 239-245: the existence check
grant_filter(i) ==
    /\ procs[i].pc = "filter"
    /\ procs' = [procs EXCEPT ![i].pc = IF grants > 0 THEN "return_none" ELSE "create"]
    /\ UNCHANGED <<today, profile, session, progress, attempts, daily_quests, quests, grants>>

\* lines 248-251: the insert; the database rejects a second row
grant_create(i) ==
    /\ procs[i].pc = "create"
    /\ IF unique_together(grants)
       THEN /\ grants' = grants + 1
            /\ procs' = [procs EXCEPT ![i].pc = "profile"]
       ELSE /\ grants' = grants
            /\ procs' = [procs EXCEPT ![i].pc = "IntegrityError"]
    /\ UNCHANGED <<today, profile, session, progress, attempts, daily_quests, quests>>

\* line 254: profile = user.profile
grant_profile(i) ==
    /\ procs[i].pc = "profile"
    /\ procs' = [procs EXCEPT ![i].pc = "add_xp", ![i].loaded = TRUE,
                              ![i].profile = IF procs[i].loaded THEN @ ELSE profile]
    /\ UNCHANGED <<today, profile, session, progress, attempts, daily_quests, quests, grants>>

\* line 255: profile.add_xp(achievement.xp_reward), which saves every field
grant_add_xp(i) ==
    /\ procs[i].pc = "add_xp"
    /\ profile' = add_xp(procs[i].profile, xp_reward(procs[i].achievement))
    /\ procs' = [procs EXCEPT ![i].pc = "add_gems", ![i].profile = profile']
    /\ UNCHANGED <<today, session, progress, attempts, daily_quests, quests, grants>>

\* line 256: profile.add_gems(achievement.gem_reward), which saves every field
grant_add_gems(i) ==
    /\ procs[i].pc = "add_gems"
    /\ profile' = add_gems(procs[i].profile, gem_reward(procs[i].achievement))
    /\ procs' = [procs EXCEPT ![i].pc = "return", ![i].profile = profile']
    /\ UNCHANGED <<today, session, progress, attempts, daily_quests, quests, grants>>

NextGrant ==
    \E i \in Procs :
        \/ grant_filter(i)
        \/ grant_create(i)
        \/ grant_profile(i)
        \/ grant_add_xp(i)
        \/ grant_add_gems(i)

SpecGrant == InitGrant /\ [][NextGrant]_vars

----------------------------------------------------------------------------
(* Concurrent completions: views.lesson_complete, requested twice at once   *)
(* by the same user for the same lesson (a duplicate submit). Each step is  *)
(* one database access of one request; what a request holds in memory       *)
(* (its profile object, its session, its quest object) is its own.          *)

\* What the two requests find: the stored state after no answer, after a Failed
\* and a Perfect exercise, after two Perfect exercises, and after the run of a
\* lesson completed before
CompletionStarts ==
    {[profile |-> NewProfile(0),
      session |-> EmptyLesson(1),
      attempts |-> <<>>,
      completed |-> FALSE],
     [profile |-> [NewProfile(0) EXCEPT !.xp = FirstTryXp, !.streak_days = 1,
                                        !.last_active_date = 1],
      session |-> [EmptyLesson(1) EXCEPT ![1] = perfect, ![2] = failed],
      attempts |-> <<[exercise |-> 2, is_correct |-> FALSE],
                     [exercise |-> 2, is_correct |-> FALSE],
                     [exercise |-> 1, is_correct |-> TRUE]>>,
      completed |-> FALSE],
     [profile |-> [NewProfile(0) EXCEPT !.xp = FirstTryXp + FirstTryXp, !.streak_days = 1,
                                        !.last_active_date = 1],
      session |-> [EmptyLesson(1) EXCEPT ![1] = perfect, ![2] = perfect],
      attempts |-> <<[exercise |-> 1, is_correct |-> TRUE],
                     [exercise |-> 2, is_correct |-> TRUE]>>,
      completed |-> FALSE],
     [profile |-> [NewProfile(0) EXCEPT !.xp = CompletionXp],
      session |-> [EmptyLesson(1) EXCEPT ![1] = failed],
      attempts |-> <<[exercise |-> 1, is_correct |-> FALSE],
                     [exercise |-> 1, is_correct |-> FALSE]>>,
      completed |-> TRUE]}

\* A request before its first database access
NewRequest(lesson_id) ==
    [pc |-> "profile", lesson |-> lesson_id, profile |-> NewProfile(0),
     attempts_data |-> EmptyLesson(lesson_id), is_practice_mode |-> FALSE,
     created |-> FALSE, rejected |-> FALSE, quest_type |-> "none", quest |-> NoQuest]

InitComplete ==
    /\ today = 1
    /\ \E s \in CompletionStarts :
          /\ profile = s.profile
          /\ session = [l \in Lessons |-> s.session]
          /\ attempts = s.attempts
          /\ progress = [l \in Lessons |->
                            [exists |-> s.completed, completed |-> s.completed,
                             score |-> 0, last_seen |-> IF s.completed THEN 1 ELSE NoDate]]
    /\ \E d \in {{}, QuestTypes} :
          /\ daily_quests = d
          /\ quests = [k \in QuestTypes \X (1..NumDays) |->
                          IF k[2] = 1 /\ k[1] \in d
                          THEN [NoQuest EXCEPT !.exists = TRUE] ELSE NoQuest]
    /\ grants = 0
    /\ procs = [i \in Procs |-> NewRequest(1)]

\* The request has given its response: the page, or a 500 after an exception
Responded(i) == procs[i].pc \in {"return", "AttributeError", "IntegrityError"}

\* The LessonProgress rows of the user for the lesson: the row found at the
\* start, or the rows the requests inserted
lesson_progress_rows(lesson_id) ==
    IF \E i \in Procs : procs[i].created
    THEN Cardinality({i \in Procs : procs[i].created})
    ELSE IF progress[lesson_id].exists THEN 1 ELSE 0

\* line 386 and line 396: the request loads the profile row and the session
complete_profile(i) ==
    /\ procs[i].pc = "profile"
    /\ procs' = [procs EXCEPT ![i].pc = "restore_hearts_if_needed",
                              ![i].profile = profile,
                              ![i].attempts_data = session[procs[i].lesson]]
    /\ UNCHANGED <<today, profile, session, progress, attempts, daily_quests, quests, grants>>

\* line 389: restore_hearts_if_needed(profile) saves every field of the
\* request's profile object when the restoration is due
complete_restore_hearts(i) ==
    /\ procs[i].pc = "restore_hearts_if_needed"
    /\ LET p == restore_hearts_if_needed(procs[i].profile, today)
           due == procs[i].profile.last_active_date = NoDate
                  \/ procs[i].profile.last_active_date < today
       IN  /\ profile' = IF due THEN p ELSE profile
           /\ procs' = [procs EXCEPT ![i].pc = "filter", ![i].profile = p]
    /\ UNCHANGED <<today, session, progress, attempts, daily_quests, quests, grants>>

\* lines 392-393: is_practice_mode
complete_filter(i) ==
    /\ procs[i].pc = "filter"
    /\ LET is_practice_mode == practice_mode(State, procs[i].lesson)
       IN  procs' = [procs EXCEPT ![i].is_practice_mode = is_practice_mode,
                                  ![i].pc = IF is_practice_mode THEN "practice_save"
                                            ELSE "get"]
    /\ UNCHANGED <<today, profile, session, progress, attempts, daily_quests, quests, grants>>

\* line 412, get_or_create: the lookup
complete_get(i) ==
    /\ procs[i].pc = "get"
    /\ procs' = [procs EXCEPT ![i].pc = IF progress[procs[i].lesson].exists THEN "save"
                                        ELSE "create"]
    /\ UNCHANGED <<today, profile, session, progress, attempts, daily_quests, quests, grants>>

get_or_create_raises(row_exists) == "IntegrityError"

\* get_or_create, when its insert is rejected: it looks the row up again and
\* returns it, and raises the IntegrityError only when there is still no row
get_or_create_rejected(row_exists) == IF row_exists THEN "save" ELSE "IntegrityError"

\* line 412, get_or_create: the insert after a lookup that found no row;
\* LessonProgress.Meta.unique_together rejects a second row of (user, lesson)
complete_create(i) ==
    /\ procs[i].pc = "create"
    /\ LET l == procs[i].lesson
       IN  IF lesson_progress_rows(l) = 0
           THEN /\ progress' = [progress EXCEPT ![l].exists = TRUE]
                /\ procs' = [procs EXCEPT ![i].pc = "save", ![i].created = TRUE]
           ELSE /\ progress' = progress
                /\ procs' = [procs EXCEPT
                                ![i].pc = get_or_create_rejected(progress[l].exists),
                                ![i].rejected = TRUE]
    /\ UNCHANGED <<today, profile, session, attempts, daily_quests, quests, grants>>

\* lines 413-416: lp.save() writes every field of the row
complete_save(i) ==
    /\ procs[i].pc = "save"
    /\ progress' = [progress EXCEPT ![procs[i].lesson] =
                       completed_progress(@, score_of(procs[i].attempts_data), today)]
    /\ procs' = [procs EXCEPT ![i].pc = "add_xp"]
    /\ UNCHANGED <<today, profile, session, attempts, daily_quests, quests, grants>>

\* line 420: profile.add_xp(completion_xp) saves every field of the request's
\* profile object
complete_add_xp(i) ==
    /\ procs[i].pc = "add_xp"
    /\ profile' = add_xp(procs[i].profile, CompletionXp)
    /\ procs' = [procs EXCEPT ![i].pc = "first", ![i].quest_type = "earn_xp",
                              ![i].profile = profile']
    /\ UNCHANGED <<today, session, progress, attempts, daily_quests, quests, grants>>

\* The quest updates of lines 426-451 come in the order earn_xp,
\* complete_lessons, perfect_lesson: what follows each
after_quest(quest_type) ==
    CASE quest_type = "earn_xp" -> [pc |-> "first", quest_type |-> "complete_lessons"]
      [] quest_type = "complete_lessons" -> [pc |-> "first", quest_type |-> "perfect_lesson"]
      [] OTHER -> [pc |-> "weekly_warrior", quest_type |-> "none"]

increment_of(quest_type) == IF quest_type = "earn_xp" THEN CompletionXp ELSE 1

\* perfect_count == total_exercises of the session the request loaded
is_perfect(i) ==
    count_status(procs[i].attempts_data, DOMAIN procs[i].attempts_data, perfect)
        = Len(exercises(procs[i].lesson))

\* lines 426-430, 435-439, 445-449: UserDailyQuest.objects.filter(...).first()
complete_quest_first(i) ==
    /\ procs[i].pc = "first"
    /\ LET quest_type == procs[i].quest_type
           quest == quests[<<quest_type, today>>]
           found == quest.exists /\ (quest_type = "perfect_lesson" => is_perfect(i))
       IN  procs' = [procs EXCEPT
                        ![i].quest = quest,
                        ![i].pc = IF found THEN "update_progress"
                                  ELSE after_quest(quest_type).pc,
                        ![i].quest_type = IF found THEN quest_type
                                          ELSE after_quest(quest_type).quest_type]
    /\ UNCHANGED <<today, profile, session, progress, attempts, daily_quests, quests, grants>>

\* lines 431-432, 440-441, 450-451: quest.update_progress(...) saves the
\* request's quest object
complete_update_progress(i) ==
    /\ procs[i].pc = "update_progress"
    /\ LET quest_type == procs[i].quest_type
       IN  /\ quests' = [quests EXCEPT ![<<quest_type, today>>] =
                            update_progress(procs[i].quest, quest_type,
                                            increment_of(quest_type))]
           /\ procs' = [procs EXCEPT ![i].pc = after_quest(quest_type).pc,
                                     ![i].quest_type = after_quest(quest_type).quest_type]
    /\ UNCHANGED <<today, profile, session, progress, attempts, daily_quests, grants>>

\* lines 457-482: DailyQuest.WEEKLY_WARRIOR and DailyQuest.STREAK_MASTER raise
\* AttributeError; otherwise the view goes on to clear the session
complete_weekly_warrior(i) ==
    /\ procs[i].pc = "weekly_warrior"
    /\ procs' = [procs EXCEPT
                    ![i].pc = IF raises_attribute_error(
                                     count_status(procs[i].attempts_data,
                                                  DOMAIN procs[i].attempts_data, perfect),
                                     Len(exercises(procs[i].lesson)), procs[i].profile)
                              THEN "AttributeError" ELSE "clear"]
    /\ UNCHANGED <<today, profile, session, progress, attempts, daily_quests, quests, grants>>

\* lines 485-487: lesson_progress.save() of the practice branch
complete_practice_save(i) ==
    /\ procs[i].pc = "practice_save"
    /\ progress' = [progress EXCEPT ![procs[i].lesson] =
                       practice_progress(@, score_of(procs[i].attempts_data), today)]
    /\ procs' = [procs EXCEPT ![i].pc = "clear"]
    /\ UNCHANGED <<today, profile, session, attempts, daily_quests, quests, grants>>

\* lines 490-495: the lesson's key is deleted from the session the request
\* loaded, and the session is saved with the response
complete_clear(i) ==
    /\ procs[i].pc = "clear"
    /\ session' = save_session(session,
                      clear_lesson(session, procs[i].lesson),
                      TRUE)
    /\ procs' = [procs EXCEPT ![i].pc = "return"]
    /\ UNCHANGED <<today, profile, progress, attempts, daily_quests, quests, grants>>

NextComplete ==
    \E i \in Procs :
        \/ complete_profile(i)
        \/ complete_restore_hearts(i)
        \/ complete_filter(i)
        \/ complete_get(i)
        \/ complete_create(i)
        \/ complete_save(i)
        \/ complete_add_xp(i)
        \/ complete_quest_first(i)
        \/ complete_update_progress(i)
        \/ complete_weekly_warrior(i)
        \/ complete_practice_save(i)
        \/ complete_clear(i)

SpecComplete == InitComplete /\ [][NextComplete]_vars

----------------------------------------------------------------------------
(* Concurrent page views: views.course_detail, requested twice at once by   *)
(* the same user on a day for which the user has no quest instance yet.     *)
(* Each step is one database access of one request.                         *)

\* DailyQuest.objects.filter(is_active=True): the active templates in the order
\* of the query
active_quests ==
    LET all == <<"earn_xp", "complete_lessons", "perfect_lesson", "use_no_hearts">>
    IN  SelectSeq(all, LAMBDA t : t \in daily_quests)

\* A request before its first database access
NewPageView == [pc |-> "profile", profile |-> NewProfile(0), created |-> 0]

InitQuests ==
    /\ today = 1
    /\ \E c \in BOOLEAN :
          /\ profile = IF c THEN GrantProfile ELSE NewProfile(0)
          /\ progress = [l \in Lessons |->
                            [exists |-> c, completed |-> c, score |-> IF c THEN 1 ELSE 0,
                             last_seen |-> IF c THEN 1 ELSE NoDate]]
    /\ \E d \in {QuestTypes, {"earn_xp", "perfect_lesson"}, {"complete_lessons"}} :
          daily_quests = d
    /\ session = [l \in Lessons |-> EmptyLesson(l)]
    /\ attempts = <<>>
    /\ quests = [k \in QuestTypes \X (1..NumDays) |-> NoQuest]
    /\ grants = 0
    /\ procs = [i \in Procs |-> NewPageView]

\* line 84: profile = request.user.profile
page_profile(i) ==
    /\ procs[i].pc = "profile"
    /\ procs' = [procs EXCEPT ![i].pc = "restore_hearts_if_needed", ![i].profile = profile]
    /\ UNCHANGED <<today, profile, session, progress, attempts, daily_quests, quests, grants>>

\* line 87: restore_hearts_if_needed(profile) saves every field of the request's
\* profile object when the restoration is due
page_restore_hearts(i) ==
    /\ procs[i].pc = "restore_hearts_if_needed"
    /\ LET p == restore_hearts_if_needed(procs[i].profile, today)
           due == procs[i].profile.last_active_date = NoDate
                  \/ procs[i].profile.last_active_date < today
       IN  /\ profile' = IF due THEN p ELSE profile
           /\ procs' = [procs EXCEPT ![i].pc = "exists", ![i].profile = p]
    /\ UNCHANGED <<today, session, progress, attempts, daily_quests, quests, grants>>

\* lines 109-112: if not daily_quests.exists()
page_exists(i) ==
    /\ procs[i].pc = "exists"
    /\ procs' = [procs EXCEPT
                    ![i].pc = IF \/ \E t \in QuestTypes : quests[<<t, today>>].exists
                                 \/ active_quests = <<>>
                              THEN "return" ELSE "create"]
    /\ UNCHANGED <<today, profile, session, progress, attempts, daily_quests, quests, grants>>

\* lines 114-119: UserDailyQuest.objects.create for the next active template;
\* UserDailyQuest.Meta.unique_together rejects a second row of (user, quest,
\* date_assigned) with an IntegrityError, which nothing catches
page_create(i) ==
    /\ procs[i].pc = "create"
    /\ LET k == <<active_quests[procs[i].created + 1], today>>
       IN  IF quests[k].exists
           THEN /\ quests' = quests
                /\ procs' = [procs EXCEPT ![i].pc = "IntegrityError"]
           ELSE /\ quests' = [quests EXCEPT ![k] = [NoQuest EXCEPT !.exists = TRUE]]
                /\ procs' = [procs EXCEPT
                                ![i].created = @ + 1,
                                ![i].pc = IF procs[i].created + 1 = Len(active_quests)
                                          THEN "return" ELSE "create"]
    /\ UNCHANGED <<today, profile, session, progress, attempts, daily_quests, grants>>

NextQuests ==
    \E i \in Procs :
        \/ page_profile(i)
        \/ page_restore_hearts(i)
        \/ page_exists(i)
        \/ page_create(i)

SpecQuests == InitQuests /\ [][NextQuests]_vars

----------------------------------------------------------------------------
(* The Answer Judge alone: views.exercise_play, lines 211-254, applied to    *)
(* the submissions of a user to exercises of every kind. Each step judges   *)
(* one POST and records its Attempt row with every field.                   *)

MaxJudged == 2          \* the submissions judged in one behaviour

JudgeExercises == 1..5

\* Attempt.objects.create(user, exercise, submitted_text, selected_choice, is_correct)
JudgedAttempt(exercise, post) ==
    [exercise |-> exercise,
     submitted_text |-> strip(post.answer),
     selected_choice |-> IF /\ type(exercise) = "MC"
                            /\ post.choice \in ChoiceIds
                            /\ choice_exercise(post.choice) = exercise
                         THEN post.choice ELSE NoChoice,
     is_correct |-> is_correct_of(exercise, post)]

InitJudge ==
    /\ today = 1
    /\ profile = NewProfile(0)
    /\ daily_quests = {}
    /\ session = [l \in Lessons |-> EmptyLesson(l)]
    /\ progress = [l \in Lessons |->
                      [exists |-> TRUE, completed |-> TRUE, score |-> 0, last_seen |-> 1]]
    /\ attempts = <<>>
    /\ quests = [k \in QuestTypes \X (1..NumDays) |-> NoQuest]
    /\ grants = 0
    /\ procs = [i \in Procs |-> NoProc]

Judge ==
    /\ Len(attempts) < MaxJudged
    /\ \E exercise \in JudgeExercises, post \in Posts :
          /\ ~raises_value_error(exercise, post)
          /\ attempts' = Append(attempts, JudgedAttempt(exercise, post))
    /\ UNCHANGED <<today, profile, session, progress, daily_quests, quests, grants, procs>>

SpecJudge == InitJudge /\ [][Judge]_vars

----------------------------------------------------------------------------
(* Streaks: the correct answers of a user over several days, each a POST to  *)
(* views.exercise_play for the first exercise of the lesson, in a lesson    *)
(* not yet completed and in a completed one (practice mode).                *)

StreakDays == 5         \* the days the clock runs through, and the answers given

InitStreak ==
    /\ today = 1
    /\ profile = NewProfile(0)
    /\ daily_quests = {}
    /\ session = [l \in Lessons |-> EmptyLesson(l)]
    /\ \E c \in BOOLEAN :
          progress = [l \in Lessons |->
                         [exists |-> c, completed |-> c, score |-> 0,
                          last_seen |-> IF c THEN 1 ELSE NoDate]]
    /\ attempts = <<>>
    /\ quests = [k \in QuestTypes \X (1..StreakDays) |-> NoQuest]
    /\ grants = 0
    /\ procs = [i \in Procs |-> NoProc]

\* Midnight passes
StreakNewDay ==
    /\ today < StreakDays
    /\ today' = today + 1
    /\ UNCHANGED <<profile, session, progress, attempts, quests, daily_quests, grants, procs>>

\* A correct answer to the first exercise
StreakAnswer ==
    /\ Len(attempts) < StreakDays
    /\ \E l \in Lessons : \E post \in Posts :
          /\ is_correct_of(exercises(l)[1], post)
          /\ Stored(exercise_play(State, l, 1, "POST", post))
    /\ UNCHANGED <<today, daily_quests, grants, procs>>

NextStreak == StreakNewDay \/ StreakAnswer

SpecStreak == InitStreak /\ [][NextStreak]_vars

----------------------------------------------------------------------------
(* Achievement Evaluator: utils/achievements.check_and_award_achievements,  *)
(* called for a user whose statistics lie around the milestones. Each step  *)
(* is one call, run to its return with no other request in between. Here    *)
(* grants holds the titles of the user's UserAchievement rows, and procs    *)
(* holds what the call finds outside the user's rows: the Achievement rows  *)
(* that exist and the hour of timezone.now().                               *)

MaxCompleted == 25      \* the lessons the evaluated user can have completed
QuestDays == 25         \* the days the evaluated user has played

Categories == {"lesson", "streak", "xp", "perfect", "quest", "time", "gems"}

\* achievement_type=None: every category
AllCategories == "None"

\* The milestones dict of each check_*_achievements function, in its order
milestones(category) ==
    CASE category = "lesson" ->
            << <<"First Steps", 1>>, <<"Scholar", 5>>, <<"Dedicated Learner", 10>>,
               <<"Lesson Master", 25>> >>
      [] category = "streak" ->
            << <<"Warming Up", 3>>, <<"On Fire", 7>>, <<"Wildfire", 14>>,
               <<"Unstoppable", 30>>, <<"Legendary Streak", 100>> >>
      [] category = "xp" ->
            << <<"Rising Star", 100>>, <<"Experience Hunter", 500>>,
               <<"XP Champion", 1000>>, <<"XP Legend", 5000>> >>
      [] category = "quest" ->
            << <<"Quest Starter", 1>>, <<"Quest Warrior", 10>>, <<"Quest Master", 25>> >>
      [] category = "gems" ->
            << <<"Gem Collector", 100>>, <<"Treasure Hunter", 500>> >>
      [] OTHER -> << >>

\* The titles populate_achievements creates
Titles ==
    {"First Steps", "Scholar", "Dedicated Learner", "Lesson Master",
     "Warming Up", "On Fire", "Wildfire", "Unstoppable", "Legendary Streak",
     "Rising Star", "Experience Hunter", "XP Champion", "XP Legend",
     "Perfectionist", "Flawless Five", "Perfect Ten",
     "Quest Starter", "Quest Warrior", "Quest Master",
     "Early Bird", "Night Owl", "Weekend Warrior", "Speed Demon",
     "Gem Collector", "Treasure Hunter"}

\* What an evaluation reads and writes
Evaluation ==
    [profile |-> profile, progress |-> progress, quests |-> quests, grants |-> grants,
     achievements |-> procs.achievements, hour |-> procs.hour,
     user_achievement |-> "None", newly_earned |-> << >>]

\* The statistic a check_*_achievements function reads before its loop
statistic(st, category) ==
    CASE category = "lesson" ->
            Cardinality({l \in DOMAIN st.progress :
                            st.progress[l].exists /\ st.progress[l].completed})
      [] category = "streak" -> st.profile.streak_days
      [] category = "xp" -> st.profile.xp
      [] category = "quest" ->
            Cardinality({k \in DOMAIN st.quests :
                            st.quests[k].exists /\ st.quests[k].completed})
      [] category = "gems" -> st.profile.gems
      [] OTHER -> 0

met_strictly(stat, required) == stat > required

\* "if completed_count >= required_count" and its like
met(stat, required) == stat >= required

award_achievement_unrecorded(st, title) ==
    [st EXCEPT !.profile = add_gems(add_xp(@, xp_reward(title)), gem_reward(title)),
               !.user_achievement = title]

\* award_achievement run to its return: None for an achievement held, else the
\* new row, after the reward is credited through the caller's profile object
award_achievement(st, title) ==
    IF title \in st.grants
    THEN [st EXCEPT !.user_achievement = "None"]
    ELSE [st EXCEPT !.grants = @ \cup {title},
                    !.profile = add_gems(add_xp(@, xp_reward(title)), gem_reward(title)),
                    !.user_achievement = title]

\* The body of a milestone loop: Achievement.objects.filter(title=title).first(),
\* the test against the ids held, the award, and the append of a row returned
check_milestone(st, title, earned_achievement_ids) ==
    IF title \in st.achievements /\ title \notin earned_achievement_ids
    THEN LET awarded == award_achievement(st, title)
         IN  IF awarded.user_achievement # "None"
             THEN [awarded EXCEPT !.newly_earned = Append(@, awarded.user_achievement)]
             ELSE awarded
    ELSE st

\* The milestone loop of a check_*_achievements function, over the statistic
\* read before the loop
RECURSIVE check_milestones(_, _, _, _)
check_milestones(st, table, stat, earned_achievement_ids) ==
    IF table = << >>
    THEN st
    ELSE check_milestones(
             IF met(stat, Head(table)[2])
             THEN check_milestone(st, Head(table)[1], earned_achievement_ids)
             ELSE st,
             Tail(table), stat, earned_achievement_ids)

\* check_time_based_achievements: before 08:00, at or after 22:00
check_time_based_achievements(st, earned_achievement_ids) ==
    LET early == IF st.hour < 8
                 THEN check_milestone(st, "Early Bird", earned_achievement_ids)
                 ELSE st
    IN  IF st.hour >= 22
        THEN check_milestone(early, "Night Owl", earned_achievement_ids)
        ELSE early

\* One check_*_achievements function; check_perfect_lesson_achievements
\* grants nothing
check_achievements(st, category, earned_achievement_ids) ==
    CASE category = "time" -> check_time_based_achievements(st, earned_achievement_ids)
      [] category = "perfect" -> st
      [] OTHER -> check_milestones(st, milestones(category), statistic(st, category),
                                   earned_achievement_ids)

\* check_and_award_achievements run to its return. The ids held are a query
\* evaluated at its first use and kept; award_achievement looks the row up
\* again, so the ids held when the call starts give the same grants.
check_and_award_achievements(st, achievement_type) ==
    LET earned_achievement_ids == st.grants
        check(s, category) ==
            IF achievement_type \in {AllCategories, category}
            THEN check_achievements(s, category, earned_achievement_ids)
            ELSE s
    IN  check(check(check(check(check(check(check(
            [st EXCEPT !.newly_earned = << >>, !.user_achievement = "None"],
            "lesson"), "streak"), "xp"), "perfect"), "quest"), "time"), "gems")

\* The user evaluated: n lessons completed, the earn_xp quest completed on the
\* first q days, XP x (at least what the completions and the quests took)
InitEvaluate ==
    /\ today = QuestDays
    /\ daily_quests = QuestTypes
    /\ session = [l \in Lessons |-> EmptyLesson(l)]
    /\ attempts = << >>
    /\ grants = {}
    /\ \E n \in {0, 1, 5, 10, MaxCompleted}, q \in {0, 1, 10, QuestDays},
          x \in {0, 95, 100, 480, 950, 4900, 5000}, s \in {1, 3} :
          /\ x >= CompletionXp * n + target_value("earn_xp") * q
          /\ profile = [NewProfile(0) EXCEPT !.xp = x, !.streak_days = s,
                                             !.last_active_date = today]
          /\ progress = [l \in 1..MaxCompleted |->
                            IF l <= n
                            THEN [exists |-> TRUE, completed |-> TRUE, score |-> 1,
                                  last_seen |-> today]
                            ELSE [exists |-> FALSE, completed |-> FALSE, score |-> 0,
                                  last_seen |-> NoDate]]
          /\ quests = [k \in QuestTypes \X (1..QuestDays) |->
                          IF k[1] = "earn_xp" /\ k[2] <= q
                          THEN [exists |-> TRUE, progress |-> target_value("earn_xp"),
                                completed |-> TRUE]
                          ELSE NoQuest]
    /\ \E rows \in {Titles, Titles \ {"Scholar", "Experience Hunter", "Quest Starter"}},
          h \in {7, 12, 22} :
          procs = [achievements |-> rows, hour |-> h]

Evaluate ==
    \E achievement_type \in Categories \cup {AllCategories} :
        LET r == check_and_award_achievements(Evaluation, achievement_type)
        IN  /\ profile' = r.profile
            /\ grants' = r.grants
            /\ UNCHANGED <<today, session, progress, attempts, daily_quests, quests, procs>>

SpecEvaluate == InitEvaluate /\ [][Evaluate]_vars

----------------------------------------------------------------------------
(* Text helper: utils/ai_helper.generate_smart_hint and explain_mistake.    *)
(* Each step is one call, run to its return, or the expiry of a cache       *)
(* entry. Here procs holds the cache (the hints by exercise, the            *)
(* explanations by mistake key) and what the last call was given and        *)
(* returned.                                                                *)

HintExercises == {1, 2}

\* Exercise.hint (blank=True) and Exercise.prompt
hint(e) == IF e = 1 THEN "" ELSE "It is a polite word."
prompt(e) == IF e = 1 THEN "Hola" ELSE "Which one is 'gracias'?"

DefaultHint == "Think about the context and try again!"

\* f"The correct answer is '{correct_answer}'. Keep practicing!"
DefaultExplanation(correct_answer) == <<"The correct answer is '", correct_answer, "'. Keep practicing!">>

\* What client.models.generate_content does: it raises, it answers without a
\* text (response.text is None), or it answers with a text
ServiceFailures == {"raise", "None"}
ServiceOutcomes == ServiceFailures \cup {" Look at the ending. ", ""}

\* The submitted texts explained
SubmittedTexts == {"adios", "ADIOS", "hi"}

\* The text hashed into the explanation cache key
explanation_key(user_answer, correct_answer, exercise_prompt) ==
    <<lower(user_answer), lower(correct_answer), lower(exercise_prompt)>>

ExplanationKeys ==
    {explanation_key(t, answer_text(e), prompt(e)) : t \in SubmittedTexts, e \in HintExercises}

\* cache.get of a key never set or expired
NoEntry == "<None>"

EmptyCache ==
    [hints |-> [e \in HintExercises |-> NoEntry],
     explanations |-> [k \in ExplanationKeys |-> NoEntry]]

\* "if cached_hint:": an entry, and not the empty text
hit(cached) == cached \notin {NoEntry, ""}

fallback_cached(cache_entries, key, text) == [cache_entries EXCEPT ![key] = text]

\* What the except branch leaves in the cache: what it found
fallback_kept(cache_entries, key, text) == cache_entries

\* generate_smart_hint run to its return
generate_smart_hint(cache, exercise, outcome) ==
    LET cached_hint == cache.hints[exercise]
        static == IF hint(exercise) # "" THEN hint(exercise) ELSE DefaultHint
    IN  IF hit(cached_hint)
        THEN [cache |-> cache, returned |-> cached_hint, consulted |-> FALSE,
              raised |-> FALSE]
        ELSE IF outcome \in ServiceFailures
        THEN [cache |-> [cache EXCEPT !.hints = fallback_kept(@, exercise, static)],
              returned |-> static, consulted |-> TRUE, raised |-> FALSE]
        ELSE [cache |-> [cache EXCEPT !.hints[exercise] = strip(outcome)],
              returned |-> strip(outcome), consulted |-> TRUE, raised |-> FALSE]

\* explain_mistake run to its return
explain_mistake(cache, user_answer, correct_answer, exercise_prompt, outcome) ==
    LET cache_key == explanation_key(user_answer, correct_answer, exercise_prompt)
        cached_explanation == cache.explanations[cache_key]
    IN  IF hit(cached_explanation)
        THEN [cache |-> cache, returned |-> cached_explanation, consulted |-> FALSE,
              raised |-> FALSE]
        ELSE IF outcome \in ServiceFailures
        THEN [cache |-> [cache EXCEPT !.explanations =
                            fallback_kept(@, cache_key, DefaultExplanation(correct_answer))],
              returned |-> DefaultExplanation(correct_answer), consulted |-> TRUE,
              raised |-> FALSE]
        ELSE [cache |-> [cache EXCEPT !.explanations[cache_key] = strip(outcome)],
              returned |-> strip(outcome), consulted |-> TRUE, raised |-> FALSE]

\* views.exercise_play, lines 314-327 and 345-357: the explanation shown for a
\* wrong answer, None where the helper raised
ai_explanation(cache, exercise, submitted_text, outcome) ==
    LET r == explain_mistake(cache, submitted_text, answer_text(exercise),
                             prompt(exercise), outcome)
    IN  IF r.raised THEN [r EXCEPT !.returned = NoEntry] ELSE r

NoCall == [operation |-> "none", exercise |-> 0, outcome |-> "none", returned |-> NoEntry]

InitHelper ==
    /\ today = 1
    /\ profile = NewProfile(0)
    /\ daily_quests = {}
    /\ session = [l \in Lessons |-> EmptyLesson(l)]
    /\ progress = [l \in Lessons |->
                      [exists |-> FALSE, completed |-> FALSE, score |-> 0, last_seen |-> NoDate]]
    /\ attempts = << >>
    /\ quests = [k \in QuestTypes \X (1..NumDays) |-> NoQuest]
    /\ grants = 0
    /\ procs = [cache |-> EmptyCache, last |-> NoCall]

Hint ==
    \E exercise \in HintExercises, outcome \in ServiceOutcomes :
        LET r == generate_smart_hint(procs.cache, exercise, outcome)
        IN  /\ procs' = [cache |-> r.cache,
                         last |-> [operation |-> "generate_smart_hint", exercise |-> exercise,
                                   outcome |-> IF r.consulted THEN outcome ELSE "none",
                                   returned |-> r.returned]]
            /\ UNCHANGED <<today, profile, session, progress, attempts, daily_quests,
                           quests, grants>>

Explain ==
    \E exercise \in HintExercises, submitted_text \in SubmittedTexts,
       outcome \in ServiceOutcomes :
        LET r == ai_explanation(procs.cache, exercise, submitted_text, outcome)
        IN  /\ procs' = [cache |-> r.cache,
                         last |-> [operation |-> "explain_mistake", exercise |-> exercise,
                                   outcome |-> IF r.consulted THEN outcome ELSE "none",
                                   returned |-> r.returned]]
            /\ UNCHANGED <<today, profile, session, progress, attempts, daily_quests,
                           quests, grants>>

\* A cache entry reaches its timeout (7 days for a hint, 30 for an explanation)
Expire ==
    /\ \/ \E e \in HintExercises :
            /\ procs.cache.hints[e] # NoEntry
            /\ procs' = [procs EXCEPT !.cache.hints[e] = NoEntry]
       \/ \E k \in ExplanationKeys :
            /\ procs.cache.explanations[k] # NoEntry
            /\ procs' = [procs EXCEPT !.cache.explanations[k] = NoEntry]
    /\ UNCHANGED <<today, profile, session, progress, attempts, daily_quests, quests, grants>>

NextHelper == Hint \/ Explain \/ Expire

SpecHelper == InitHelper /\ [][NextHelper]_vars

----------------------------------------------------------------------------
(* Two lessons: the requests of one user on one day over both lessons of    *)
(* the course (lesson_start, exercise_play, lesson_complete), one request   *)
(* per step.                                                                *)

InitLessons ==
    /\ today = 1
    /\ profile = NewProfile(0)
    /\ daily_quests = {}
    /\ session = [l \in CourseLessons |-> EmptyLesson(l)]
    /\ progress = [l \in CourseLessons |->
                      [exists |-> FALSE, completed |-> FALSE, score |-> 0, last_seen |-> NoDate]]
    /\ attempts = << >>
    /\ quests = [k \in QuestTypes \X (1..NumDays) |-> NoQuest]
    /\ grants = 0
    /\ procs = [i \in Procs |-> NoProc]

LessonsStart ==
    /\ \E l \in CourseLessons : Stored(lesson_start(State, l))
    /\ UNCHANGED <<today, daily_quests, grants, procs>>

LessonsGet ==
    /\ \E l \in CourseLessons : \E index \in Indices(l) :
          Stored(exercise_play(State, l, index, "GET",
                               [choice |-> NoChoice, answer |-> "", ai |-> "fail"]))
    /\ UNCHANGED <<today, daily_quests, grants, procs>>

LessonsPost ==
    /\ Len(attempts) < MaxAttempts
    /\ \E l \in CourseLessons : \E index \in Indices(l), post \in Posts :
          Stored(exercise_play(State, l, index, "POST", post))
    /\ UNCHANGED <<today, daily_quests, grants, procs>>

LessonsComplete ==
    /\ \E l \in CourseLessons : Stored(lesson_complete(State, l))
    /\ UNCHANGED <<today, daily_quests, grants, procs>>

NextLessons == LessonsStart \/ LessonsGet \/ LessonsPost \/ LessonsComplete

SpecLessons == InitLessons /\ [][NextLessons]_vars

----------------------------------------------------------------------------
(* Properties. A property of a view is stated over every reachable state    *)
(* and every request the user can make in it.                               *)

Terminal == {perfect, corrected, failed}

\* The hearts a request works with once restore_hearts_if_needed has run:
\* last_active_date is never later than today
HeartsAtHand == IF profile.last_active_date = today THEN profile.hearts ELSE profile.max_hearts

\* What every answer submission (a POST that is judged and recorded) leaves
Submissions ==
    {r \in UNION {{exercise_play(State, l, index, "POST", post) :
                      index \in Indices(l), post \in Posts} : l \in Lessons} :
        Len(r.attempts) = Len(attempts) + 1}

\* The exercise a submission was recorded for, and its verdict
Exercise(r) == r.attempts[Len(r.attempts)].exercise
Verdict(r) == r.attempts[Len(r.attempts)].is_correct

\* The status the session held for the exercise before, and holds after
Before(r) == session[r.resp.lesson][Exercise(r)]
After(r) == r.session[r.resp.lesson][Exercise(r)]

\* C1: within a lesson run, a submission to an exercise whose stored status is
\* 0 stores 1 when wrong and Perfect when correct; a submission to an exercise
\* whose stored status is 1 stores Corrected when correct and Failed when wrong
\* (so the second submission of a cycle always ends it); and the session never
\* holds a value other than 0, 1, Perfect, Corrected, Failed.
C1_StatusTable ==
    /\ \A l \in Lessons : \A e \in ExerciseIds(l) :
          session[l][e] \in {0, 1, perfect, corrected, failed}
    /\ \A r \in Submissions :
          /\ Before(r) = 0 => After(r) = IF Verdict(r) THEN perfect ELSE 1
          /\ Before(r) = 1 => After(r) = IF Verdict(r) THEN corrected ELSE failed

C1_Witness ==
    \E l \in Lessons : \E e1, e2 \in ExerciseIds(l) :
        /\ session[l][e1] = corrected /\ session[l][e2] = 1
        /\ \E r \in Submissions : Exercise(r) = e2 /\ After(r) = failed

\* C2: in every reachable state 0 <= hearts <= max_hearts.
C2_HeartsInRange == 0 <= profile.hearts /\ profile.hearts <= profile.max_hearts

C2_Witness ==
    /\ profile.hearts = 0
    /\ attempts # <<>> /\ ~attempts[Len(attempts)].is_correct

\* C3: a first completion of a lesson writes as LessonProgress.score the number
\* of the lesson's exercises whose status in the session it read is Perfect or
\* Corrected.
C3_ScoreIsPerfectPlusCorrected ==
    \A l \in Lessons :
        ~practice_mode(State, l) =>
            lesson_complete(State, l).progress[l].score =
                Cardinality({e \in ExerciseIds(l) : session[l][e] \in {perfect, corrected}})

C3_Witness ==
    \E l \in Lessons : \E e1, e2 \in ExerciseIds(l) :
        /\ ~practice_mode(State, l)
        /\ session[l][e1] = perfect /\ session[l][e2] = failed
        /\ lesson_complete(State, l).progress[l].score = 1
        /\ lesson_complete(State, l).progress[l].completed

\* C4 as stated: a completion in practice mode leaves xp, hearts, score and
\* completed as they were.
C4_Original ==
    \A l \in Lessons :
        practice_mode(State, l) =>
            LET r == lesson_complete(State, l)
            IN  /\ r.profile.xp = profile.xp
                /\ r.profile.hearts = profile.hearts
                /\ r.progress[l].score = progress[l].score
                /\ r.progress[l].completed = progress[l].completed

\* C4, amended: a completion in practice mode leaves xp, score and completed as
\* they were and never lowers hearts: of the profile it changes hearts alone, and
\* only to max_hearts when the daily restoration is due; of the LessonProgress it
\* changes last_seen alone; it changes no quest and records no attempt. A second
\* completion in practice mode right after the first changes nothing more.
C4_PracticeCompletion ==
    \A l \in Lessons :
        practice_mode(State, l) =>
            LET r == lesson_complete(State, l)
                again == lesson_complete(r, l)
            IN  /\ r.profile = [profile EXCEPT !.hearts = HeartsAtHand]
                /\ r.profile.hearts >= profile.hearts
                /\ r.progress = [progress EXCEPT ![l].last_seen = today]
                /\ r.quests = quests /\ r.attempts = attempts
                /\ again = r

C4_Witness ==
    \E l \in Lessons :
        /\ practice_mode(State, l)
        /\ progress[l].score = 1 /\ progress[l].last_seen < today
        /\ profile.hearts < profile.max_hearts
        /\ lesson_complete(State, l).profile.hearts = profile.max_hearts
        /\ lesson_complete(State, l).progress[l].score = 1

\* C5 as stated: a submission in practice mode changes neither xp nor hearts nor
\* the progress of a quest.
C5_Original ==
    \A r \in Submissions :
        practice_mode(State, r.resp.lesson) =>
            /\ r.profile.xp = profile.xp
            /\ r.profile.hearts = profile.hearts
            /\ r.quests = quests

\* C5, amended: a submission in practice mode, correct or not, first or second,
\* changes neither xp nor any quest and never lowers hearts: hearts change only
\* to max_hearts, when the daily restoration is due.
C5_PracticeSubmission ==
    \A r \in Submissions :
        practice_mode(State, r.resp.lesson) =>
            /\ r.profile.xp = profile.xp
            /\ r.profile.hearts = HeartsAtHand
            /\ r.profile.hearts >= profile.hearts
            /\ r.profile.gems = profile.gems
            /\ r.quests = quests

C5_Witness ==
    \E r \in Submissions :
        /\ practice_mode(State, r.resp.lesson)
        /\ Before(r) = 1 /\ ~Verdict(r) /\ After(r) = failed
        /\ profile.hearts > 0
        /\ r.profile = profile
        /\ \E t \in QuestTypes : quests[<<t, today>>].exists

\* C6 as stated: a submission to an exercise whose stored status is Perfect,
\* Corrected or Failed leaves that status as it is, and a stored status only
\* moves 0 -> 1 -> {Perfect, Corrected, Failed}.
C6_Original ==
    \A r \in Submissions :
        /\ Before(r) \in Terminal => After(r) = Before(r)
        /\ Before(r) = 1 => After(r) \in Terminal
        /\ Before(r) = 0 => After(r) \in {1} \cup Terminal

\* C7 as stated: outside practice mode a correct submission credits 10 XP as
\* the first of its cycle and 5 XP as the second and leaves hearts as they were;
\* an incorrect submission credits no XP.
C7_Original ==
    \A r \in Submissions :
        ~practice_mode(State, r.resp.lesson) =>
            /\ (Verdict(r) /\ Before(r) # 1) => r.profile.xp = profile.xp + 10
            /\ (Verdict(r) /\ Before(r) = 1) => r.profile.xp = profile.xp + 5
            /\ Verdict(r) => r.profile.hearts = profile.hearts
            /\ ~Verdict(r) => r.profile.xp = profile.xp

\* C7, amended: outside practice mode a correct submission credits exactly 10 XP
\* as the first of its cycle (stored status 0 or terminal) and exactly 5 XP as the
\* second (stored status 1), and never lowers hearts: hearts change only to
\* max_hearts, when the daily restoration is due; an incorrect submission
\* credits no XP.
C7_SubmissionXp ==
    \A r \in Submissions :
        ~practice_mode(State, r.resp.lesson) =>
            /\ (Verdict(r) /\ Before(r) # 1) => r.profile.xp = profile.xp + 10
            /\ (Verdict(r) /\ Before(r) = 1) => r.profile.xp = profile.xp + 5
            /\ Verdict(r) =>
                  (r.profile.hearts = HeartsAtHand /\ r.profile.hearts >= profile.hearts)
            /\ ~Verdict(r) => r.profile.xp = profile.xp

C7_Witness ==
    \E r \in Submissions :
        /\ ~practice_mode(State, r.resp.lesson)
        /\ Verdict(r) /\ Before(r) = 1
        /\ profile.xp = FirstTryXp /\ r.profile.xp = FirstTryXp + RetryXp
        /\ r.profile.hearts = profile.hearts /\ profile.hearts < profile.max_hearts

\* C8 as stated: outside practice mode each wrong try lowers hearts by exactly
\* 1, and the second wrong try of a cycle stores Failed and is answered with
\* continue and without retry.
C8_Original ==
    \A r \in Submissions :
        (~practice_mode(State, r.resp.lesson) /\ ~Verdict(r)) =>
            /\ r.profile.hearts = profile.hearts - 1
            /\ Before(r) = 1 =>
                  /\ After(r) = failed
                  /\ r.resp.show_continue /\ ~r.resp.allow_retry

\* C8, amended: outside practice mode each wrong try leaves hearts exactly 1
\* below the hearts its request works with after the restoration check (the
\* stored hearts, or max_hearts when the restoration is due), so that two wrong
\* tries lower the stored hearts by 2 only when neither request restores them;
\* the second wrong try of a cycle stores Failed and is answered with continue
\* and without retry.
C8_WrongTwice ==
    \A r \in Submissions :
        (~practice_mode(State, r.resp.lesson) /\ ~Verdict(r)) =>
            /\ r.profile.hearts = HeartsAtHand - 1
            /\ r.profile.hearts >= 0
            /\ Before(r) = 1 =>
                  /\ After(r) = failed
                  /\ r.resp.show_continue /\ ~r.resp.allow_retry

C8_Witness ==
    \E r \in Submissions :
        /\ ~practice_mode(State, r.resp.lesson)
        /\ ~Verdict(r) /\ Before(r) = 1 /\ After(r) = failed
        /\ r.resp.show_continue /\ ~r.resp.allow_retry
        /\ profile.last_active_date = today
        /\ profile.hearts = profile.max_hearts - 1
        /\ r.profile.hearts = profile.max_hearts - 2

C10_GrantedOnce ==
    (\A i \in Procs : Ended(i)) =>
        /\ grants = 1
        /\ Cardinality({i \in Procs : procs[i].pc = "return"}) = 1
        /\ \A i \in Procs :
              /\ profile.xp = GrantProfile.xp + xp_reward(procs[i].achievement)
              /\ profile.gems = GrantProfile.gems + gem_reward(procs[i].achievement)

C10_Witness ==
    /\ \A i \in Procs : Ended(i)
    /\ \E i \in Procs : procs[i].pc = "IntegrityError"
    /\ grants = 1

\* C11 as stated: a call of award_achievement whose insert is rejected by the
\* uniqueness constraint (a concurrent call inserted the row after this call's
\* existence check) ends as "already held", returning None: no call ends with
\* an IntegrityError that aborts its request.
C11_Original ==
    \A i \in Procs : Ended(i) => procs[i].pc \in {"return", "return_none"}

\* C12: for any interleaving of two completion requests of the same user for
\* the same lesson, there is never more than one LessonProgress row of (user,
\* lesson), no request ends in an IntegrityError, and once both requests have
\* given their response there is exactly one row and it has completed = True.
C12_OneProgressRow ==
    \A l \in Lessons :
        /\ lesson_progress_rows(l) <= 1
        /\ \A i \in Procs : procs[i].pc # "IntegrityError"
        /\ (\A i \in Procs : Responded(i)) =>
              /\ lesson_progress_rows(l) = 1
              /\ progress[l].exists /\ progress[l].completed

C12_Witness ==
    /\ \A i \in Procs : Responded(i)
    /\ \E i, j \in Procs :
          /\ procs[i].created /\ procs[j].rejected
          /\ procs[i].pc = "return" /\ procs[j].pc = "return"
    /\ progress[1].exists /\ progress[1].completed

\* C13: a first (non-practice) completion of a lesson leaves the LessonProgress
\* of (user, lesson) with completed = True and the computed score, raises
\* Profile.xp by exactly 20, and raises the progress of the day's "complete
\* lessons" quest instance by exactly 1 when the instance exists (and creates
\* none when it does not).
C13_FirstCompletion ==
    \A l \in Lessons :
        ~practice_mode(State, l) =>
            LET r == lesson_complete(State, l)
                k == <<"complete_lessons", today>>
            IN  /\ r.progress[l].exists /\ r.progress[l].completed
                /\ r.progress[l].score =
                      Cardinality({e \in ExerciseIds(l) : session[l][e] \in {perfect, corrected}})
                /\ r.progress[l].last_seen = today
                /\ r.profile.xp = profile.xp + 20
                /\ r.quests[k].exists = quests[k].exists
                /\ r.quests[k].progress = quests[k].progress + (IF quests[k].exists THEN 1 ELSE 0)

C13_Witness ==
    \E l \in Lessons :
        /\ ~practice_mode(State, l)
        /\ quests[<<"complete_lessons", today>>].exists
        /\ \E e \in ExerciseIds(l) : session[l][e] = corrected
        /\ profile.xp = FirstTryXp + RetryXp
        /\ LET r == lesson_complete(State, l)
           IN  /\ r.progress[l].completed /\ r.progress[l].score = 1
               /\ r.profile.xp = FirstTryXp + RetryXp + CompletionXp
               /\ r.quests[<<"complete_lessons", today>>].progress = 1

\* C14 as stated: a first completion raises the day's "perfect lesson" quest
\* instance by 1 exactly when every exercise of the lesson is Perfect, and
\* leaves it unchanged otherwise; with all N exercises Perfect the completion
\* writes score N and finishes normally (the completion page, not an error).
C14_Original ==
    \A l \in Lessons :
        ~practice_mode(State, l) =>
            LET r == lesson_complete(State, l)
                k == <<"perfect_lesson", today>>
                N == Len(exercises(l))
                all_perfect == \A e \in ExerciseIds(l) : session[l][e] = perfect
            IN  /\ r.quests[k].progress =
                      quests[k].progress + (IF quests[k].exists /\ all_perfect THEN 1 ELSE 0)
                /\ all_perfect =>
                      /\ r.progress[l].score = N
                      /\ r.resp.page = "lesson_complete.html"

\* C15 as stated: every first (non-practice) completion of a lesson runs the
\* achievement evaluator for the categories lesson, xp, quest and time, whatever
\* the streak length; a completion in practice mode runs it for none.
C15_Original ==
    \A l \in Lessons :
        lesson_complete(State, l).resp.evaluated =
            IF practice_mode(State, l) THEN {} ELSE {"lesson", "xp", "quest", "time"}

\* C16 as stated: after every completion request, a first completion (perfect
\* or not) and a completion in practice mode alike, the stored session holds no
\* status for any exercise of the lesson.
C16_Original ==
    \A l \in Lessons : lesson_complete(State, l).session[l] = EmptyLesson(l)

\* C17 as stated: after lesson_start for a lesson the stored session holds no
\* status for any exercise of the lesson, so that the following request reads
\* every exercise of the lesson as unattempted (0) and judges a submission as the
\* first of its cycle, whatever statuses were stored before.
C17_Original ==
    \A l \in Lessons :
        LET r == lesson_start(State, l)
        IN  /\ r.session[l] = EmptyLesson(l)
            /\ \A index \in 1..Len(exercises(l)), post \in Posts :
                  LET next == exercise_play(r, l, index, "POST", post)
                  IN  next.resp.judged => next.resp.attempt_count = 1

\* The user's latest Attempt row of each exercise is correct
LatestCorrect(rows, l) ==
    {e \in ExerciseIds(l) :
        \E n \in 1..Len(rows) :
            /\ rows[n].exercise = e /\ rows[n].is_correct
            /\ \A m \in (n + 1)..Len(rows) : rows[m].exercise # e}

C19_Original ==
    [][profile'.xp >= profile.xp /\ profile'.gems >= profile.gems]_vars

\* C20 as stated: a shop purchase (heart refill at 350 gems, streak freeze at
\* 200) requested with gems below the cost leaves gems and hearts as they were;
\* one requested with enough gems lowers the stored gems by exactly the cost;
\* gems is never negative.
C20_Original ==
    /\ profile.gems >= 0
    /\ \A item_type \in {"refill_hearts", "streak_freeze"} :
          LET r == shop(State, "POST", item_type)
              cost == IF item_type = "refill_hearts" THEN 350 ELSE 200
          IN  IF profile.gems < cost
              THEN r.profile.gems = profile.gems /\ r.profile.hearts = profile.hearts
              ELSE r.profile.gems = profile.gems - cost

\* C20, amended: a shop purchase requested with gems below the cost is declined
\* (the shop page is rendered, nothing is debited) and leaves gems as they were
\* and never lowers hearts: of the profile it changes hearts alone, and only to
\* max_hearts when the daily restoration is due; one requested with enough gems
\* lowers the stored gems by exactly the cost (350 for a refill, which also sets
\* hearts to max_hearts; 200 for a streak freeze, which changes nothing else);
\* gems is never negative.
C20_ShopPurchase ==
    /\ profile.gems >= 0
    /\ \A item_type \in {"refill_hearts", "streak_freeze"} :
          LET r == shop(State, "POST", item_type)
              cost == IF item_type = "refill_hearts" THEN 350 ELSE 200
              restored == [profile EXCEPT !.hearts = HeartsAtHand]
          IN  /\ r.profile.hearts >= profile.hearts
              /\ IF profile.gems < cost
                 THEN /\ r.profile = restored
                      /\ r.resp.page = "shop.html"
                 ELSE /\ r.profile.gems = profile.gems - cost
                      /\ r.profile.gems >= 0
                      /\ r.resp.page = "redirect:shop"
                      /\ r.profile =
                            [restored EXCEPT
                                !.gems = @ - cost,
                                !.hearts = IF item_type = "refill_hearts"
                                           THEN profile.max_hearts ELSE @]
              /\ r.session = session /\ r.progress = progress
              /\ r.quests = quests /\ r.attempts = attempts

C20_Witness ==
    /\ profile.gems = RefillCost - FreezeCost
    /\ profile.hearts < profile.max_hearts /\ profile.last_active_date < today
    /\ profile.last_active_date # NoDate
    /\ LET r == shop(State, "POST", "refill_hearts")
       IN  /\ r.profile.gems = profile.gems
           /\ r.profile.hearts = profile.max_hearts
           /\ r.resp.page = "shop.html"

\* The request is not stopped by the heart gate
Admitted(l) == practice_mode(State, l) \/ HeartsAtHand > 0

\* C21 as stated: for a Multiple Choice exercise the verdict is correct exactly
\* when the submitted choice id names a choice of this exercise that has
\* is_correct = True; a missing id, the id of a choice of another exercise, the
\* id of no choice and a malformed id each give the verdict incorrect without an
\* error, and the attempt is recorded.
C21_Original ==
    \A l \in Lessons : \A index \in 1..Len(exercises(l)), post \in Posts :
        (Admitted(l) /\ type(exercises(l)[index]) = "MC") =>
            LET r == exercise_play(State, l, index, "POST", post)
                e == exercises(l)[index]
            IN  /\ r.resp.page = "exercise.html" /\ r.resp.judged
                /\ r.resp.is_correct =
                      (/\ post.choice \in ChoiceIds
                       /\ choice_exercise(post.choice) = e
                       /\ choice_is_correct(post.choice))
                /\ r.attempts = Append(attempts, Attempt(e, r.resp.is_correct))

\* lower(strip(submitted)) = lower(strip(answer_text)): the case-insensitive,
\* trimmed equality
ExactMatch(e, post) == lower(strip(post.answer)) = lower(strip(answer_text(e)))

\* C22 as stated: for a Translate exercise, whenever the checker fails or
\* returns a malformed response, the verdict is the case-insensitive, trimmed
\* equality of the submitted text and the canonical answer, no feedback text is
\* attached, and the submission is recorded and answered with the exercise page.
C22_Original ==
    \A l \in Lessons : \A index \in 1..Len(exercises(l)), post \in Posts :
        (Admitted(l) /\ type(exercises(l)[index]) = "TR"
            /\ post.ai \in {"fail", "raise"}) =>
            LET r == exercise_play(State, l, index, "POST", post)
                e == exercises(l)[index]
            IN  /\ r.resp.page = "exercise.html" /\ r.resp.judged
                /\ r.resp.is_correct = ExactMatch(e, post)
                /\ r.resp.ai_feedback = NoFeedback
                /\ r.attempts = Append(attempts, Attempt(e, r.resp.is_correct))

\* C23 as stated: for every exercise type other than Multiple Choice and
\* Translate the verdict is the case-insensitive, trimmed equality of the
\* submitted text and the canonical answer; and an empty text submission to an
\* exercise judged by its text is judged incorrect, also when the exercise's
\* canonical answer is blank.
C23_Original ==
    \A n \in 1..Len(attempts) :
        LET row == attempts[n]
        IN  /\ type(row.exercise) \notin {"MC", "TR"} =>
                  row.is_correct =
                      (lower(row.submitted_text) = lower(strip(answer_text(row.exercise))))
            /\ (type(row.exercise) # "MC" /\ row.submitted_text = "") => ~row.is_correct

\* C24: every correct answer (in practice mode or not) applies update_streak:
\* streak_days becomes 1 on the first activity ever, rises by 1 when
\* last_active_date is yesterday, stays when last_active_date is today, and
\* becomes 1 when last_active_date is more than one day back; afterwards
\* last_active_date is today and streak_days >= 1, and a second correct answer
\* on the same day leaves both as the first left them.
C24_UpdateStreak ==
    \A r \in Submissions :
        Verdict(r) =>
            LET last == profile.last_active_date
                q == r.profile
            IN  /\ q.last_active_date = today /\ q.streak_days >= 1
                /\ last = NoDate => q.streak_days = 1
                /\ (last # NoDate /\ last = today - 1) =>
                      q.streak_days = profile.streak_days + 1
                /\ last = today => q.streak_days = profile.streak_days
                /\ (last # NoDate /\ last < today - 1) => q.streak_days = 1
                /\ update_streak(q, today) = q
                /\ \A post \in Posts :
                      LET again == exercise_play(r, r.resp.lesson, 1, "POST", post)
                      IN  again.resp.is_correct =>
                              /\ again.profile.streak_days = q.streak_days
                              /\ again.profile.last_active_date = q.last_active_date

C24_Witness ==
    /\ profile.last_active_date # NoDate /\ profile.last_active_date < today - 1
    /\ profile.streak_days = 2
    /\ \E r \in Submissions :
          /\ Verdict(r) /\ r.profile.streak_days = 1 /\ r.profile.last_active_date = today

\* C25: a correct answer outside practice mode raises the progress of the
\* day's "earn XP" quest instance, when it exists, by exactly the XP credited for
\* the answer (10 on the first try of a cycle, 5 on the second) and changes no
\* other quest instance; an answer in practice mode and an incorrect answer
\* change no quest instance.
C25_EarnXpQuest ==
    \A r \in Submissions :
        LET k == <<"earn_xp", today>>
            credited == r.profile.xp - profile.xp
            rewarded == Verdict(r) /\ ~practice_mode(State, r.resp.lesson)
        IN  /\ rewarded => credited = IF Before(r) = 1 THEN 5 ELSE 10
            /\ ~rewarded => (credited = 0 /\ r.quests = quests)
            /\ r.quests[k].progress =
                  quests[k].progress + (IF quests[k].exists THEN credited ELSE 0)
            /\ r.quests[k].exists = quests[k].exists
            /\ \A j \in DOMAIN quests : j # k => r.quests[j] = quests[j]

C25_Witness ==
    \E r \in Submissions :
        /\ ~practice_mode(State, r.resp.lesson)
        /\ Verdict(r) /\ Before(r) = 1
        /\ quests[<<"earn_xp", today>>].exists
        /\ quests[<<"earn_xp", today>>].progress = FirstTryXp
        /\ r.quests[<<"earn_xp", today>>].progress = FirstTryXp + RetryXp

\* What every request the user can make in this state leaves
Requests ==
    {page_view(State), course_detail(State)}
    \cup {lesson_start(State, l) : l \in Lessons}
    \cup {lesson_complete(State, l) : l \in Lessons}
    \cup UNION {{exercise_play(State, l, index, method, post) :
                    index \in Indices(l), method \in Methods, post \in Posts} :
                l \in Lessons}
    \cup {shop(State, method, item_type) : method \in Methods, item_type \in ItemTypes}

\* C26: for every quest instance, through any sequence of requests: completed
\* is true whenever progress has reached the quest's target value, no request
\* lowers progress, and no request takes completed back from true to false (nor
\* removes the instance).
C26_QuestProgress ==
    /\ \A k \in DOMAIN quests :
          /\ quests[k].exists =>
                (quests[k].progress >= target_value(k[1]) => quests[k].completed)
          /\ ~quests[k].exists => (quests[k].progress = 0 /\ ~quests[k].completed)
    /\ \A r \in Requests :
          r.quests # quests =>
              \A k \in DOMAIN quests :
                  /\ r.quests[k].progress >= quests[k].progress
                  /\ quests[k].completed => r.quests[k].completed
                  /\ quests[k].exists => r.quests[k].exists

C26_Witness ==
    \E l \in Lessons :
        LET k == <<"earn_xp", today>>
            r == lesson_complete(State, l)
        IN  /\ quests[k].exists /\ ~quests[k].completed
            /\ quests[k].progress = FirstTryXp + RetryXp
            /\ r.quests[k].progress = FirstTryXp + RetryXp + CompletionXp
            /\ r.quests[k].completed

\* C27 as stated: in any interleaving of the page views of one user on one
\* day, no page view ends in an error because another request created the quest
\* instances first, and once the page views have given their response the user
\* has the instance of every active quest for the day.
C27_Original ==
    /\ \A i \in Procs : procs[i].pc # "IntegrityError"
    /\ (\A i \in Procs : procs[i].pc = "return") =>
          \A t \in QuestTypes : quests[<<t, today>>].exists = (t \in daily_quests)

RECURSIVE credited(_)
credited(newly_earned) ==
    IF newly_earned = << >>
    THEN [xp |-> 0, gems |-> 0]
    ELSE LET rest == credited(Tail(newly_earned))
         IN  [xp |-> xp_reward(Head(newly_earned)) + rest.xp,
              gems |-> gem_reward(Head(newly_earned)) + rest.gems]

\* C29: a call of the evaluation, for one category or for all, returns exactly
\* the achievements whose grant row it created, each once; it returns none the
\* user held before, keeps the rows held, and credits the XP and the gems of
\* the returned achievements and no more; a call that returned nothing,
\* repeated at once for the same category, changes neither the grants nor the
\* profile and returns nothing.
C29_NewlyGrantedOnly ==
    \A achievement_type \in Categories \cup {AllCategories} :
        LET r == check_and_award_achievements(Evaluation, achievement_type)
            returned == {r.newly_earned[i] : i \in DOMAIN r.newly_earned}
            again == check_and_award_achievements(r, achievement_type)
        IN  /\ returned = r.grants \ grants
            /\ Cardinality(returned) = Len(r.newly_earned)
            /\ returned \cap grants = {}
            /\ grants \subseteq r.grants
            /\ r.profile = [profile EXCEPT !.xp = @ + credited(r.newly_earned).xp,
                                           !.gems = @ + credited(r.newly_earned).gems]
            /\ r.newly_earned = << >> =>
                  /\ again.grants = r.grants
                  /\ again.profile = r.profile
                  /\ again.newly_earned = << >>

\* A user who holds an achievement of a category whose threshold is still met,
\* and whom a call for that category grants another one
C29_Witness ==
    \E category \in {"lesson", "xp", "quest"} :
        /\ check_and_award_achievements(Evaluation, category).newly_earned # << >>
        /\ \E i \in DOMAIN milestones(category) :
              /\ milestones(category)[i][1] \in grants
              /\ statistic(Evaluation, category) >= milestones(category)[i][2]

\* C30 as stated: after an evaluation of the lesson, XP or quest category, the
\* user holds every existing achievement of the category whose threshold the
\* user's statistic (as it is after the evaluation) meets, and is granted no
\* achievement whose threshold it does not meet.
C30_Original ==
    \A category \in {"lesson", "xp", "quest"} :
        LET r == check_and_award_achievements(Evaluation, category)
        IN  \A i \in DOMAIN milestones(category) :
                LET title == milestones(category)[i][1]
                    required == milestones(category)[i][2]
                IN  /\ (statistic(r, category) >= required /\ title \in procs.achievements)
                          => title \in r.grants
                    /\ title \in r.grants \ grants => statistic(r, category) >= required

\* C30, amended: after an evaluation of the lesson, XP or quest category, the
\* user holds every existing achievement of the category whose threshold is
\* met by the statistic the evaluation read when it started; the evaluation
\* grants nothing whose threshold that statistic does not meet, and nothing
\* outside the category's table.
C30_ThresholdsMet ==
    \A category \in {"lesson", "xp", "quest"} :
        LET r == check_and_award_achievements(Evaluation, category)
        IN  /\ \A i \in DOMAIN milestones(category) :
                  LET title == milestones(category)[i][1]
                      required == milestones(category)[i][2]
                  IN  /\ (statistic(Evaluation, category) >= required
                            /\ title \in procs.achievements) => title \in r.grants
                      /\ title \in r.grants \ grants =>
                            statistic(Evaluation, category) >= required
            /\ r.grants \ grants \subseteq
                  {milestones(category)[i][1] : i \in DOMAIN milestones(category)}

\* A user an evaluation has granted two achievements of a category, and not a
\* third whose threshold the statistic does not meet
C30_Witness ==
    \E category \in {"lesson", "xp", "quest"} :
        LET table == milestones(category)
        IN  /\ Cardinality({i \in DOMAIN table : table[i][1] \in grants}) >= 2
            /\ \E i \in DOMAIN table :
                  /\ statistic(Evaluation, category) < table[i][2]
                  /\ table[i][1] \in procs.achievements
                  /\ table[i][1] \notin grants
            /\ check_and_award_achievements(Evaluation, category).grants = grants

\* C31: when the text service fails (it raises, or answers without a text)
\* in a call that found no cached text, generate_smart_hint returns the
\* exercise's static hint if it is not empty and the default text otherwise,
\* and explain_mistake (and so the view's explanation) returns the fixed text
\* naming the correct answer; neither raises, neither changes the cache, and
\* the same call made again consults the service again.
C31_HelperFallback ==
    \A exercise \in HintExercises, outcome \in ServiceFailures :
        /\ ~hit(procs.cache.hints[exercise]) =>
              LET r == generate_smart_hint(procs.cache, exercise, outcome)
              IN  /\ r.returned = (IF exercise = 1 THEN DefaultHint ELSE "It is a polite word.")
                  /\ ~r.raised /\ r.consulted
                  /\ r.cache = procs.cache
                  /\ \A later \in ServiceOutcomes :
                        generate_smart_hint(r.cache, exercise, later).consulted
        /\ \A submitted_text \in SubmittedTexts :
              ~hit(procs.cache.explanations[
                       explanation_key(submitted_text, answer_text(exercise), prompt(exercise))]) =>
              LET r == ai_explanation(procs.cache, exercise, submitted_text, outcome)
              IN  /\ r.returned = <<"The correct answer is '", answer_text(exercise),
                                    "'. Keep practicing!">>
                  /\ ~r.raised /\ r.consulted
                  /\ r.cache = procs.cache
                  /\ \A later \in ServiceOutcomes :
                        ai_explanation(r.cache, exercise, submitted_text, later).consulted

\* A failed hint call for the exercise without a static hint, made while
\* other texts are cached, returned the default text
C31_Witness ==
    /\ procs.last.operation = "generate_smart_hint"
    /\ procs.last.outcome \in ServiceFailures
    /\ procs.last.exercise = 1
    /\ procs.last.returned = DefaultHint
    /\ procs.cache.hints[1] = NoEntry
    /\ hit(procs.cache.hints[2])
    /\ \E k \in ExplanationKeys : hit(procs.cache.explanations[k])

\* C32: a completion request writes a LessonProgress row with completed = TRUE
\* for a lesson not completed before, or credits the completion bonus, only
\* when every exercise of the lesson has a terminal status in the session.
C32_Original ==
    \A l \in Lessons :
        LET r == lesson_complete(State, l)
            p0 == restore_hearts_if_needed(profile, today)
        IN  ((r.progress[l].completed /\ ~progress[l].completed) \/ r.profile.xp > p0.xp) =>
                \A e \in ExerciseIds(l) : session[l][e] \in Terminal

\* C33: once a request of a day has run restore_hearts_if_needed and then taken
\* a heart for a wrong answer, the heart stays lost for the rest of the day:
\* restore_hearts_if_needed in the next request of the same day restores
\* nothing.
C33_Original ==
    \A r \in Submissions :
        r.profile.hearts < restore_hearts_if_needed(profile, today).hearts =>
            restore_hearts_if_needed(r.profile, today).hearts = r.profile.hearts

\* C34: outside practice mode, when a submission has left an exercise with a
\* terminal status and the user answers the same exercise again in the next
\* request (no lesson_start and no completion in between), the answer XP the
\* two submissions credit together is at most 10.
C34_Original ==
    \A l \in Lessons : \A index \in Indices(l), first \in Posts, again \in Posts :
        LET r1 == exercise_play(State, l, index, "POST", first)
            r2 == exercise_play([r1 EXCEPT !.resp = NoResponse], l, index, "POST", again)
        IN  (~practice_mode(State, l) /\ r1.resp.judged /\ r2.resp.judged
               /\ r1.session[l][r1.resp.exercise] \in Terminal) =>
                r2.profile.xp - profile.xp <= FirstTryXp

\* The state the two completion requests started from (the Attempt rows, which
\* a completion leaves alone, tell the starts apart)
CompletionStart == CHOOSE s \in CompletionStarts : s.attempts = attempts

\* C35: once two concurrent completion requests of the same user for the same
\* lesson have given their response, whatever their interleaving, the profile
\* holds at most the XP it had plus one completion bonus, and the day's
\* "complete lessons" quest has advanced by at most 1.
C35_Original ==
    (\A i \in Procs : Responded(i)) =>
        /\ profile.xp <= CompletionStart.profile.xp + CompletionXp
        /\ quests[<<"complete_lessons", today>>].progress <= 1

\* C36: in every reachable state the session dict of a lesson holds a status
\* only under the keys of that lesson's exercises, so the terminal statuses a
\* completion tallies are at most the lesson's exercise count, and the score
\* a completion writes, like every stored LessonProgress.score, lies between 0
\* and the lesson's exercise count.
C36_SessionKeys ==
    \A l \in CourseLessons :
        LET total_exercises == Len(exercises(l))
        IN  /\ \A e \in ExerciseKeys \ ExerciseIds(l) : session[l][e] = 0
            /\ Cardinality({e \in DOMAIN session[l] : session[l][e] \in Terminal})
                  <= total_exercises
            /\ progress[l].score \in 0..total_exercises
            /\ lesson_complete(State, l).progress[l].score \in 0..total_exercises

\* The second lesson completed with its one exercise correct, while the first
\* lesson has an exercise answered
C36_Witness ==
    /\ progress[2].completed /\ progress[2].score = 1
    /\ \E e \in ExerciseIds(1) : session[1][e] \in Terminal

\* C37: lesson_start, a GET or POST of exercise_play and lesson_complete for a
\* lesson leave the stored session statuses and the LessonProgress row of every
\* other lesson as they were.
C37_OtherLessons ==
    \A l \in CourseLessons :
        \A r \in {lesson_start(State, l), lesson_complete(State, l)}
                 \cup {exercise_play(State, l, index, method, post) :
                          index \in Indices(l), method \in Methods, post \in Posts} :
            \A other \in CourseLessons \ {l} :
                /\ r.session[other] = session[other]
                /\ r.progress[other] = progress[other]

\* A completion of the second lesson clears its statuses while the first
\* lesson, completed before, has a status stored again
C37_Witness ==
    /\ progress[1].completed
    /\ \E e \in ExerciseIds(1) : session[1][e] # 0
    /\ session[2][3] \in Terminal
    /\ lesson_complete(State, 2).session[2] = EmptyLesson(2)
    /\ lesson_complete(State, 2).progress[2] # progress[2]

\* C38: a GET of exercise_play changes no stored status, credits no XP, takes
\* no heart, appends no Attempt and touches no LessonProgress or quest row; a
\* completion requested after the GET writes the score it would have written
\* before it, so an exercise stored as Perfect or Corrected and viewed again
\* still counts.
C38_ViewChangesNothing ==
    \A l \in Lessons : \A index \in Indices(l), post \in Posts :
        LET r == exercise_play(State, l, index, "GET", post)
            before == lesson_complete(State, l)
            after == lesson_complete([r EXCEPT !.resp = NoResponse], l)
        IN  /\ r.session = session
            /\ r.profile.xp = profile.xp /\ r.profile.gems = profile.gems
            /\ r.profile.hearts >= profile.hearts
            /\ r.profile.streak_days = profile.streak_days
            /\ r.attempts = attempts
            /\ r.progress = progress /\ r.quests = quests
            /\ ~r.resp.judged
            /\ after.progress[l].score = before.progress[l].score
            /\ ~practice_mode(State, l) =>
                  after.progress[l].score =
                      Cardinality({e \in ExerciseIds(l) : session[l][e] \in {perfect, corrected}})

\* A user with hearts views again the first exercise, stored as Perfect, of a
\* lesson not yet completed whose other exercise is stored as Corrected
C38_Witness ==
    /\ session[1][1] = perfect /\ session[1][2] = corrected
    /\ ~practice_mode(State, 1)
    /\ LET r == exercise_play(State, 1, 1, "GET", [choice |-> NoChoice, answer |-> "", ai |-> "fail"])
       IN  /\ r.resp.page = "exercise.html" /\ r.resp.exercise = 1
           /\ lesson_complete([r EXCEPT !.resp = NoResponse], 1).progress[1].score = 2

\* C39: the response to an answer submission offers continue exactly when the
\* status stored for the exercise after the submission is terminal, offers a
\* retry exactly when that status is 1 (attempted once), and never offers
\* both.
C39_ContinueOrRetry ==
    \A r \in Submissions :
        /\ r.resp.show_continue = (After(r) \in Terminal)
        /\ r.resp.allow_retry = (After(r) = 1)
        /\ ~(r.resp.show_continue /\ r.resp.allow_retry)

\* An exercise attempted once: a wrong answer ends it as Failed with continue,
\* while a wrong answer to the other exercise is offered a retry
C39_Witness ==
    /\ \E r \in Submissions :
          Before(r) = 1 /\ After(r) = failed /\ r.resp.show_continue /\ ~r.resp.allow_retry
    /\ \E r \in Submissions :
          Before(r) = 0 /\ After(r) = 1 /\ r.resp.allow_retry /\ ~r.resp.show_continue

====
